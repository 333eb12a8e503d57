---------------------------- MODULE ServicesProofs ----------------------------
(* What the services around the rooms promise, for every value of their         *)
(* constants: the command channel of an engine and the hub of duel events are   *)
(* ordered feeds, the lists in force are never lost to a reload, and the cards  *)
(* in memory never go back.                                                     *)
EXTENDS CoreChannel, DuelEventHub, BanListReload, CardPools, SequenceTheorems, FiniteSetTheorems, TLAPS

--------------------------------------------------------------------------------
(* The command channel implements the ordered feed, for any commands, any       *)
(* number of duels and any pattern of full pipes.  The invariant is the ledger  *)
(* of the channel: what the attached core has read, followed by what still      *)
(* waits for it, is what the room asked.                                        *)

(* The ledger, and when the queue may hold something back.                      *)
NothingLost ==
  IF core = 0 THEN asked = <<>> /\ written = <<>>
              ELSE asked = written \o pending
HeldByFullPipe == core # 0 /\ ~isWaitingDrain => pending = <<>>
ListenersAreAttached == listeners \subseteq 1..core

ChanInv ==
  /\ ChanTypeOK /\ NothingLost /\ HeldByFullPipe
  /\ ListenersAreAttached /\ WaitsForItsOwnDrain
  /\ core = 0 => ~isWaitingDrain

--------------------------------------------------------------------------------
(* Prefixes of concatenations.                                                  *)
LEMMA PrefixOfConcat ==
  ASSUME NEW S, NEW s \in Seq(S), NEW t \in Seq(S)
  PROVE  IsPrefix(s, s \o t)
  <1>1. Len(s) \in Nat /\ Len(t) \in Nat /\ Len(s \o t) = Len(s) + Len(t)
    BY ConcatProperties
  <1>2. CASE Len(s) = 0
    BY <1>1, <1>2, SubSeqEmpty DEF IsPrefix
  <1>3. CASE Len(s) > 0
    <2>1. SubSeq(s \o t, 1, Len(s)) = SubSeq(s, 1, Len(s))
      BY <1>1, <1>3, SubSeqOfConcat1
    <2> QED  BY <1>1, <2>1 DEF IsPrefix
  <1> QED  BY <1>1, <1>2, <1>3

LEMMA PrefixOfItself ==
  ASSUME NEW S, NEW s \in Seq(S)
  PROVE  IsPrefix(s, s)
  BY DEF IsPrefix

(* A sequence cut in two.                                                       *)
LEMMA CutInTwo ==
  ASSUME NEW S, NEW s \in Seq(S), NEW n \in 0..Len(s)
  PROVE  /\ SubSeq(s, 1, n) \in Seq(S) /\ SubSeq(s, n + 1, Len(s)) \in Seq(S)
         /\ SubSeq(s, 1, n) \o SubSeq(s, n + 1, Len(s)) = s
         /\ n = Len(s) => SubSeq(s, n + 1, Len(s)) = <<>>
  <1>1. Len(s) \in Nat /\ n \in Nat /\ \A i \in 1..Len(s) : s[i] \in S
    OBVIOUS
  <1>2. SubSeq(s, 1, n) \in Seq(S)
    BY <1>1, SubSeqProperties
  <1>3. SubSeq(s, n + 1, Len(s)) \in Seq(S)
    BY <1>1, SubSeqProperties
  <1>4. SubSeq(s, 1, n) \o SubSeq(s, n + 1, Len(s)) = SubSeq(s, 1, Len(s))
    <2>1. 1 \in 1..Len(s) + 1 /\ n \in (1 - 1)..Len(s) /\ Len(s) \in n..Len(s)
      BY <1>1
    <2>2. \A m \in 1..Len(s) + 1 : \A k \in (m - 1)..Len(s) : \A j \in k..Len(s) :
             SubSeq(s, m, k) \o SubSeq(s, k + 1, j) = SubSeq(s, m, j)
      BY ConcatAdjacentSubSeq
    <2> QED  BY <2>1, <2>2
  <1>5. SubSeq(s, 1, Len(s)) = s
    BY SubSeqFull
  <1>6. n = Len(s) => SubSeq(s, n + 1, Len(s)) = <<>>
    BY <1>1, SubSeqEmpty
  <1> QED  BY <1>2, <1>3, <1>4, <1>5, <1>6

(* What flush does for an attached core: it moves a beginning of the queue to   *)
(* the core and keeps a rest only behind a full pipe.                           *)
LEMMA FlushMoves ==
  ASSUME core # 0, written \in Seq(CoreCommands),
         NEW todo \in Seq(CoreCommands), NEW heard, Flush(todo, heard)
  PROVE  /\ written' \in Seq(CoreCommands) /\ pending' \in Seq(CoreCommands)
         /\ written' \o pending' = written \o todo
         /\ IsPrefix(written, written')
         /\ isWaitingDrain' \in BOOLEAN
         /\ ~isWaitingDrain' => pending' = <<>>
         /\ listeners' = IF isWaitingDrain' THEN heard \cup {core} ELSE heard
  <1>1. PICK n \in 0..Len(todo), full \in BOOLEAN :
          /\ IF full THEN n > 0 ELSE n = Len(todo)
          /\ written' = written \o SubSeq(todo, 1, n)
          /\ pending' = SubSeq(todo, n + 1, Len(todo))
          /\ isWaitingDrain' = full
          /\ listeners' = IF full THEN heard \cup {core} ELSE heard
    BY DEF Flush
  <1> DEFINE front == SubSeq(todo, 1, n)
             rest  == SubSeq(todo, n + 1, Len(todo))
  <1>2. /\ front \in Seq(CoreCommands) /\ rest \in Seq(CoreCommands)
        /\ front \o rest = todo /\ (n = Len(todo) => rest = <<>>)
    BY CutInTwo
  <1> HIDE DEF front, rest
  <1>3. written' = written \o front /\ pending' = rest
    BY <1>1 DEF front, rest
  <1>4. written' \in Seq(CoreCommands)
    BY <1>2, <1>3, ConcatProperties
  <1>5. written' \o pending' = written \o todo
    <2>1. \A t, u \in Seq(CoreCommands) : (written \o t) \o u = written \o (t \o u)
      BY ConcatAssociative, SMTT(60)
    <2> QED  BY <1>2, <1>3, <2>1
  <1>6. IsPrefix(written, written')
    BY <1>2, <1>3, PrefixOfConcat
  <1>7. ~isWaitingDrain' => pending' = <<>>
    BY <1>1, <1>2, <1>3
  <1> QED  BY <1>1, <1>2, <1>3, <1>4, <1>5, <1>6, <1>7

(* flush before the first core: the queue is dropped.                           *)
LEMMA FlushDrops ==
  ASSUME core = 0, NEW todo, NEW heard, Flush(todo, heard)
  PROVE  /\ pending' = <<>> /\ listeners' = heard
         /\ isWaitingDrain' = isWaitingDrain /\ written' = written
  BY DEF Flush

--------------------------------------------------------------------------------
LEMMA ChanInitInv == ChanInit => ChanInv
  <1> SUFFICES ASSUME ChanInit PROVE ChanInv
    OBVIOUS
  <1>1. <<>> \in Seq(CoreCommands)
    OBVIOUS
  <1>2. ChanTypeOK
    <2>1. core \in 0..MaxCores
      BY ChannelBounds DEF ChanInit
    <2>2. pending \in Seq(CoreCommands) /\ written \in Seq(CoreCommands) /\ asked \in Seq(CoreCommands)
      BY <1>1 DEF ChanInit
    <2>3. isWaitingDrain \in BOOLEAN /\ listeners \subseteq 1..MaxCores /\ exited \subseteq 1..MaxCores
      BY DEF ChanInit
    <2> QED  BY <2>1, <2>2, <2>3 DEF ChanTypeOK
  <1> QED
    BY <1>2 DEF ChanInit, ChanInv, NothingLost, HeldByFullPipe, ListenersAreAttached, WaitsForItsOwnDrain

LEMMA AttachKeeps == ChanInv /\ Attach => ChanInv'
  <1> SUFFICES ASSUME ChanInv, Attach PROVE ChanInv'
    OBVIOUS
  <1>1. <<>> \in Seq(CoreCommands) /\ <<>> \o <<>> = <<>>
    BY ConcatEmptySeq
  <1>2. /\ core \in 0..MaxCores /\ core < MaxCores /\ core' = core + 1
        /\ pending' = <<>> /\ written' = <<>> /\ asked' = <<>> /\ isWaitingDrain' = FALSE
        /\ listeners' = listeners /\ exited' = exited /\ listeners \subseteq 1..core
    BY DEF Attach, ChanInv, ChanTypeOK, ListenersAreAttached
  <1>3. ChanTypeOK'
    <2>1. core' \in 0..MaxCores
      BY <1>2, ChannelBounds
    <2>2. pending' \in Seq(CoreCommands) /\ written' \in Seq(CoreCommands) /\ asked' \in Seq(CoreCommands)
      BY <1>1, <1>2
    <2>3. isWaitingDrain' \in BOOLEAN /\ listeners' \subseteq 1..MaxCores /\ exited' \subseteq 1..MaxCores
      BY <1>2 DEF ChanInv, ChanTypeOK
    <2> QED  BY <2>1, <2>2, <2>3 DEF ChanTypeOK
  <1>4. NothingLost' /\ HeldByFullPipe'
    BY <1>1, <1>2 DEF NothingLost, HeldByFullPipe
  <1>5. ListenersAreAttached' /\ core' \notin listeners'
    BY <1>2, ChannelBounds DEF ListenersAreAttached
  <1> QED  BY <1>2, <1>3, <1>4, <1>5 DEF ChanInv, WaitsForItsOwnDrain

(* A command is written, queued behind a full pipe, or dropped before the first *)
(* core; what was asked grows by it and what was written by what flush moves.   *)
LEMMA SendKeeps ==
  ASSUME ChanInv, NEW command \in CoreCommands, Send(command)
  PROVE  ChanInv' /\ IsPrefix(asked, asked') /\ IsPrefix(written, written')
  <1> USE DEF ChanInv, ChanTypeOK
  <1>1. core' = core /\ exited' = exited
    BY DEF Send
  <1>2. <<command>> \in Seq(CoreCommands)
    OBVIOUS
  <1>3. Append(pending, command) = pending \o <<command>> /\ Append(asked, command) = asked \o <<command>>
    BY AppendIsConcat
  <1>4. pending \o <<command>> \in Seq(CoreCommands) /\ asked \o <<command>> \in Seq(CoreCommands)
    BY <1>2, ConcatProperties
  <1>5. IsPrefix(asked, asked \o <<command>>) /\ IsPrefix(asked, asked) /\ IsPrefix(written, written)
    BY <1>2, PrefixOfConcat, PrefixOfItself
  <1>6. CASE core = 0
    <2>1. ~isWaitingDrain /\ asked' = asked /\ Flush(Append(pending, command), listeners)
      BY <1>6 DEF Send
    <2>2. pending' = <<>> /\ listeners' = listeners /\ isWaitingDrain' = isWaitingDrain /\ written' = written
      BY <1>6, <2>1, FlushDrops
    <2> QED
      BY <1>1, <1>5, <1>6, <2>1, <2>2 DEF NothingLost, HeldByFullPipe, ListenersAreAttached, WaitsForItsOwnDrain
  <1>7. CASE core # 0
    <2>1. asked' = asked \o <<command>> /\ asked = written \o pending
      BY <1>3, <1>7 DEF Send, NothingLost
    <2>2. asked' = written \o (pending \o <<command>>)
      BY <1>2, <2>1, ConcatAssociative, SMTT(60)
    <2>3. CASE isWaitingDrain
      <3>1. pending' = pending \o <<command>> /\ isWaitingDrain' = isWaitingDrain
              /\ written' = written /\ listeners' = listeners
        BY <1>3, <2>3 DEF Send
      <3> QED
        BY <1>1, <1>4, <1>5, <1>7, <2>1, <2>2, <2>3, <3>1
           DEF NothingLost, HeldByFullPipe, ListenersAreAttached, WaitsForItsOwnDrain
    <2>4. CASE ~isWaitingDrain
      <3>1. Flush(pending \o <<command>>, listeners)
        BY <1>3, <2>4 DEF Send
      <3>2. /\ written' \in Seq(CoreCommands) /\ pending' \in Seq(CoreCommands)
            /\ written' \o pending' = asked' /\ IsPrefix(written, written')
            /\ isWaitingDrain' \in BOOLEAN
            /\ ~isWaitingDrain' => pending' = <<>>
            /\ listeners' = IF isWaitingDrain' THEN listeners \cup {core} ELSE listeners
        BY <1>4, <1>7, <2>2, <3>1, FlushMoves
      <3>3. asked' \in Seq(CoreCommands) /\ IsPrefix(asked, asked')
        BY <1>4, <1>5, <2>1
      <3>4. core \notin listeners /\ core \in 1..core
        BY <1>7, <2>4 DEF WaitsForItsOwnDrain
      <3>5. ListenersAreAttached' /\ WaitsForItsOwnDrain' /\ listeners' \subseteq 1..MaxCores
        BY <1>1, <1>7, <3>2, <3>4, ChannelBounds DEF ListenersAreAttached, WaitsForItsOwnDrain
      <3>6. NothingLost' /\ HeldByFullPipe'
        BY <1>1, <1>7, <3>2 DEF NothingLost, HeldByFullPipe
      <3> QED
        BY <1>1, <1>7, <3>2, <3>3, <3>5, <3>6
    <2> QED  BY <2>3, <2>4
  <1> QED  BY <1>6, <1>7

(* The drain of a replaced core only takes its own listener away; that of the   *)
(* attached core moves the queue on.                                            *)
LEMMA DrainKeeps ==
  ASSUME ChanInv, NEW c \in 1..MaxCores, Drain(c)
  PROVE  ChanInv' /\ IsPrefix(written, written')
  <1> USE DEF ChanInv, ChanTypeOK
  <1>1. core' = core /\ exited' = exited /\ asked' = asked /\ core # 0
    <2>1. c \in listeners /\ c \in 1..core
      BY DEF Drain, ListenersAreAttached
    <2> QED  BY <2>1, ChannelBounds DEF Drain
  <1>2. CASE c # core
    <2>1. /\ listeners' = listeners \ {c} /\ pending' = pending
          /\ isWaitingDrain' = isWaitingDrain /\ written' = written
      BY <1>2 DEF Drain
    <2>2. IsPrefix(written, written)
      BY PrefixOfItself
    <2> QED
      BY <1>1, <1>2, <2>1, <2>2 DEF NothingLost, HeldByFullPipe, ListenersAreAttached, WaitsForItsOwnDrain
  <1>3. CASE c = core
    <2>1. Flush(pending, listeners \ {c})
      BY <1>3 DEF Drain
    <2>2. /\ written' \in Seq(CoreCommands) /\ pending' \in Seq(CoreCommands)
          /\ written' \o pending' = written \o pending /\ IsPrefix(written, written')
          /\ isWaitingDrain' \in BOOLEAN
          /\ ~isWaitingDrain' => pending' = <<>>
          /\ listeners' = IF isWaitingDrain' THEN (listeners \ {c}) \cup {core} ELSE listeners \ {c}
      BY <1>1, <2>1, FlushMoves
    <2>3. ListenersAreAttached' /\ WaitsForItsOwnDrain' /\ listeners' \subseteq 1..MaxCores
      BY <1>1, <1>3, <2>2, ChannelBounds DEF ListenersAreAttached, WaitsForItsOwnDrain
    <2>4. NothingLost' /\ HeldByFullPipe'
      BY <1>1, <2>2 DEF NothingLost, HeldByFullPipe
    <2> QED  BY <1>1, <2>2, <2>3, <2>4
  <1> QED  BY <1>2, <1>3

LEMMA ExitKeeps ==
  ASSUME ChanInv, NEW c \in 1..MaxCores, CoreExits(c)
  PROVE  ChanInv'
  BY DEF CoreExits, ChanInv, ChanTypeOK, NothingLost, HeldByFullPipe,
     ListenersAreAttached, WaitsForItsOwnDrain

LEMMA ChanStepInv == ChanInv /\ [ChanNext]_chanVars => ChanInv'
  <1> SUFFICES ASSUME ChanInv, [ChanNext]_chanVars PROVE ChanInv'
    OBVIOUS
  <1>1. CASE UNCHANGED chanVars
    BY <1>1 DEF chanVars, ChanInv, ChanTypeOK, NothingLost, HeldByFullPipe,
       ListenersAreAttached, WaitsForItsOwnDrain
  <1> QED  BY <1>1, AttachKeeps, SendKeeps, DrainKeeps, ExitKeeps DEF ChanNext

(* A core's "drain" is awaited exactly while the attached core owes one:        *)
(* CoreChannel.flush and its listener's `this.core !== core` test.              *)
THEOREM WaitIsTheAttachedCores == ChanSpec => []WaitsForItsOwnDrain
  <1>1. ChanInv => WaitsForItsOwnDrain
    BY DEF ChanInv
  <1> QED  BY ChanInitInv, ChanStepInv, <1>1, PTL DEF ChanSpec

--------------------------------------------------------------------------------
(* Every step of the channel is a step of the feed, or none.                    *)
LEMMA ChanStepRefines ==
  ChanInv /\ [ChanNext]_chanVars => [CommandFeed!Next]_(CommandFeed!vars)
  <1> SUFFICES ASSUME ChanInv, [ChanNext]_chanVars PROVE [CommandFeed!Next]_(CommandFeed!vars)
    OBVIOUS
  <1> USE DEF CommandFeed!vars, CommandFeed!IsPrefix, CommandFeed!Next
  <1>1. CASE Attach
    <2>1. asked' = <<>> /\ written' = <<>> /\ core' # 0
      BY <1>1 DEF Attach, ChanInv, ChanTypeOK
    <2> QED  BY <2>1 DEF CommandFeed!Renew
  <1>2. ASSUME ChanInv', core # 0, core' = core,
               IsPrefix(asked, asked'), IsPrefix(written, written')
        PROVE  CommandFeed!Next
    <2>1. IsPrefix(written', asked')
      <3>1. asked' = written' \o pending' /\ written' \in Seq(CoreCommands) /\ pending' \in Seq(CoreCommands)
        BY <1>2 DEF ChanInv, ChanTypeOK, NothingLost
      <3> QED  BY <3>1, PrefixOfConcat
    <2> QED  BY <1>2, <2>1 DEF CommandFeed!Flow, IsPrefix
  <1>3. ASSUME NEW command \in CoreCommands, Send(command)
        PROVE  [CommandFeed!Next]_(CommandFeed!vars)
    <2>1. core' = core
      BY <1>3 DEF Send
    <2>2. CASE core = 0
      BY <1>3, <2>1, <2>2, FlushDrops DEF Send, ChanInv
    <2>3. CASE core # 0
      BY <1>2, <1>3, <2>1, <2>3, SendKeeps
    <2> QED  BY <2>2, <2>3
  <1>4. ASSUME NEW c \in 1..MaxCores, Drain(c)
        PROVE  [CommandFeed!Next]_(CommandFeed!vars)
    <2>1. core' = core /\ asked' = asked /\ core # 0
      BY <1>4 DEF Drain, ChanInv, ChanTypeOK, ListenersAreAttached
    <2>2. IsPrefix(asked, asked)
      BY PrefixOfItself DEF ChanInv, ChanTypeOK
    <2> QED  BY <1>2, <1>4, <2>1, <2>2, DrainKeeps
  <1>5. ASSUME NEW c \in 1..MaxCores, CoreExits(c)
        PROVE  [CommandFeed!Next]_(CommandFeed!vars)
    BY <1>5 DEF CoreExits
  <1>6. CASE UNCHANGED chanVars
    BY <1>6 DEF chanVars
  <1> QED  BY <1>1, <1>3, <1>4, <1>5, <1>6 DEF ChanNext

(* The channel implements the ordered feed: no command is written twice, out of *)
(* order, or to the core of another duel (CoreChannel.send, flush, attach).     *)
THEOREM ChannelImplementsFeed == ChanSpec => ChannelIsOrderedFeed
  <1>1. ChanInit => CommandFeed!Init
    BY DEF ChanInit, CommandFeed!Init
  <1> QED
    BY ChanInitInv, ChanStepInv, ChanStepRefines, <1>1, PTL
       DEF ChanSpec, ChannelIsOrderedFeed, CommandFeed!Spec

(* Both, for any number of duels and commands: the commands in order, and the   *)
(* wait of a full pipe ended by its own core (CoreChannel.flush, attach).       *)
THEOREM ChannelHoldsProved == ChanSpec => ChannelHolds
  <1>1. WaitsForItsOwnDrain' => [WaitsForItsOwnDrain']_chanVars
    OBVIOUS
  <1> QED
    BY <1>1, ChannelImplementsFeed, WaitIsTheAttachedCores, PTL DEF ChannelHolds

--------------------------------------------------------------------------------
(* The hub implements the ordered feed towards every plugin of every room       *)
(* state, and its queues stay within maxQueue: for any plugins, subscriptions,  *)
(* limits and handlers, slow ones and ones that never return included.          *)

(* A state that is not attached yet has told its plugins nothing.               *)
Fresh(c) == c[1] > attached =>
  /\ queue[c] = <<>> /\ handling[c] = <<>> /\ addressed[c] = <<>> /\ handled[c] = <<>>
  /\ ~disconnected[c] /\ ~draining[c]

(* What a connected plugin was handed, followed by what is queued for it, is    *)
(* what was dispatched to it.                                                   *)
NothingSkipped(c) == ~disconnected[c] => addressed[c] = handled[c] \o queue[c]

(* A plugin out of patience is disconnected, and no handler of it is awaited.   *)
PatienceHolds(c) == ~disconnected[c] \/ handling[c] # <<>> => violations[c] < MaxViolations

HubInv == HubTypeOK /\ \A c \in Consumers : Fresh(c) /\ NothingSkipped(c) /\ PatienceHolds(c)

--------------------------------------------------------------------------------
(* Taking the head of a queue moves it from one side of the cut to the other.   *)
LEMMA MoveHead ==
  ASSUME NEW S, NEW s \in Seq(S), NEW q \in Seq(S), q # <<>>
  PROVE  /\ Append(s, Head(q)) \in Seq(S) /\ Tail(q) \in Seq(S) /\ Head(q) \in S
         /\ Append(s, Head(q)) \o Tail(q) = s \o q
         /\ IsPrefix(s, Append(s, Head(q)))
         /\ Len(Tail(q)) = Len(q) - 1
  <1>1. Head(q) \in S /\ Tail(q) \in Seq(S) /\ <<Head(q)>> \in Seq(S) /\ Len(Tail(q)) = Len(q) - 1
    BY HeadTailProperties
  <1>2. Append(s, Head(q)) = s \o <<Head(q)>> /\ Append(s, Head(q)) \in Seq(S)
    BY <1>1, AppendIsConcat, AppendProperties
  <1>3. <<Head(q)>> \o Tail(q) = q
    OBVIOUS
  <1>4. \A t, u \in Seq(S) : (s \o t) \o u = s \o (t \o u)
    BY ConcatAssociative, SMTT(60)
  <1>5. Append(s, Head(q)) \o Tail(q) = s \o q
    BY <1>1, <1>2, <1>3, <1>4
  <1>6. IsPrefix(s, Append(s, Head(q)))
    BY <1>1, <1>2, PrefixOfConcat
  <1> QED  BY <1>1, <1>2, <1>5, <1>6

(* One dispatch addresses as many copies of an event as there are subscriptions.*)
LEMMA CopiesType == \A plugin, kind : Copies(plugin, kind) \in Nat
  <1> TAKE plugin, kind
  <1>1. DOMAIN Subscriptions = 1..Len(Subscriptions) /\ Len(Subscriptions) \in Nat
    BY HubBounds, LenProperties
  <1>2. IsFiniteSet(DOMAIN Subscriptions)
    BY <1>1, FS_Interval
  <1>3. IsFiniteSet({i \in DOMAIN Subscriptions : Subscriptions[i] = <<plugin, kind>>})
    BY <1>2, FS_Subset
  <1> QED  BY <1>3, FS_CardinalityType DEF Copies

LEMMA EventsType ==
  ASSUME NEW c, NEW kind, dispatched \in 0..MaxEvents, dispatched < MaxEvents
  PROVE  Events(c, kind) \in Seq(1..MaxEvents) /\ Len(Events(c, kind)) = Copies(c[2], kind)
  <1>1. Copies(c[2], kind) \in Nat
    BY CopiesType
  <1>2. dispatched + 1 \in 1..MaxEvents
    BY HubBounds
  <1>3. PICK n \in Nat : n = Copies(c[2], kind)
    BY <1>1
  <1>4. PICK e \in 1..MaxEvents : e = dispatched + 1
    BY <1>2
  <1>5. Events(c, kind) = [i \in 1..n |-> e]
    BY <1>3, <1>4 DEF Events
  <1>6. [i \in 1..n |-> e] \in [1..n -> 1..MaxEvents]
    OBVIOUS
  <1>7. Events(c, kind) \in Seq(1..MaxEvents)
    BY <1>5, <1>6, SeqDef
  <1>8. DOMAIN Events(c, kind) = 1..n
    BY <1>5
  <1>9. Len(Events(c, kind)) = n
    BY <1>7, <1>8, LenProperties
  <1> QED  BY <1>3, <1>7, <1>9

--------------------------------------------------------------------------------
LEMMA HubInitInv == HubInit => HubInv
  <1> SUFFICES ASSUME HubInit PROVE HubInv
    OBVIOUS
  <1>1. <<>> \in Seq(1..MaxEvents) /\ Len(<<>>) = 0 /\ <<>> \o <<>> = <<>>
    BY ConcatEmptySeq
  <1>2. HubTypeOK
    <2>1. /\ queue \in [Consumers -> Seq(1..MaxEvents)] /\ handling \in [Consumers -> Seq(1..MaxEvents)]
          /\ addressed \in [Consumers -> Seq(1..MaxEvents)] /\ handled \in [Consumers -> Seq(1..MaxEvents)]
          /\ \A c \in Consumers : Len(queue[c]) = 0 /\ Len(handling[c]) = 0
      BY <1>1 DEF HubInit
    <2>2. attached \in 0..MaxAttachments /\ dispatched \in 0..MaxEvents
      BY HubBounds DEF HubInit
    <2>3. draining \in [Consumers -> BOOLEAN] /\ disconnected \in [Consumers -> BOOLEAN]
      BY DEF HubInit
    <2>4. violations \in [Consumers -> 0..MaxViolations]
      BY HubBounds DEF HubInit
    <2> QED  BY <2>1, <2>2, <2>3, <2>4, HubBounds DEF HubTypeOK
  <1>3. ASSUME NEW c \in Consumers PROVE Fresh(c) /\ NothingSkipped(c) /\ PatienceHolds(c)
    <2>1. Fresh(c) /\ NothingSkipped(c)
      BY <1>1 DEF HubInit, Fresh, NothingSkipped
    <2>2. PatienceHolds(c)
      BY HubBounds DEF HubInit, PatienceHolds
    <2> QED  BY <2>1, <2>2
  <1> QED  BY <1>2, <1>3 DEF HubInv

(* drain's loop takes the head of the queue, or ends and leaves nothing to take.*)
TakesHead(c) ==
  /\ queue[c] # <<>>
  /\ handled'[c] = Append(handled[c], Head(queue[c])) /\ queue'[c] = Tail(queue[c])

LoopEnds(c, cut) ==
  /\ handled'[c] = handled[c] /\ handling'[c] = <<>>
  /\ IF cut THEN queue'[c] = <<>> ELSE queue'[c] = queue[c]

LEMMA TakeNextTakes ==
  ASSUME HubTypeOK, NEW c \in Consumers, NEW cut \in BOOLEAN, TakeNext(c, cut)
  PROVE  /\ queue' \in [Consumers -> Seq(1..MaxEvents)] /\ Len(queue'[c]) <= MaxQueue
         /\ handling' \in [Consumers -> Seq(1..MaxEvents)] /\ Len(handling'[c]) <= 1
         /\ handled' \in [Consumers -> Seq(1..MaxEvents)] /\ draining' \in [Consumers -> BOOLEAN]
         /\ \A d \in Consumers \ {c} : /\ queue'[d] = queue[d] /\ handling'[d] = handling[d]
                                      /\ handled'[d] = handled[d] /\ draining'[d] = draining[d]
         /\ (~cut /\ TakesHead(c)) \/ LoopEnds(c, cut)
  <1>0. /\ queue \in [Consumers -> Seq(1..MaxEvents)] /\ Len(queue[c]) <= MaxQueue
        /\ handling \in [Consumers -> Seq(1..MaxEvents)]
        /\ handled \in [Consumers -> Seq(1..MaxEvents)] /\ draining \in [Consumers -> BOOLEAN]
    BY DEF HubTypeOK
  <1>1. <<>> \in Seq(1..MaxEvents) /\ Len(<<>>) = 0 /\ MaxQueue \in Nat
    BY HubBounds
  <1>2. CASE queue[c] # <<>> /\ ~cut
    <2> DEFINE head == Head(queue[c])
    <2>1. /\ head \in 1..MaxEvents /\ Append(handled[c], head) \in Seq(1..MaxEvents)
          /\ Tail(queue[c]) \in Seq(1..MaxEvents) /\ Len(Tail(queue[c])) = Len(queue[c]) - 1
      BY <1>0, <1>2, MoveHead
    <2>2. /\ handling' = [handling EXCEPT ![c] = <<head>>]
          /\ handled' = [handled EXCEPT ![c] = Append(handled[c], head)]
          /\ queue' = [queue EXCEPT ![c] = Tail(queue[c])]
          /\ draining' = draining
      BY <1>2 DEF TakeNext
    <2>3. <<head>> \in Seq(1..MaxEvents) /\ Len(<<head>>) = 1
      BY <2>1
    <2>4. Len(Tail(queue[c])) <= MaxQueue
      BY <1>0, <1>1, <2>1, LenProperties
    <2> HIDE DEF head
    <2>5. TakesHead(c)
      BY <1>0, <1>2, <2>2 DEF TakesHead, head
    <2> QED  BY <1>0, <1>2, <2>1, <2>2, <2>3, <2>4, <2>5
  <1>3. CASE ~(queue[c] # <<>> /\ ~cut)
    <2>1. /\ handling' = [handling EXCEPT ![c] = <<>>]
          /\ queue' = [queue EXCEPT ![c] = IF cut THEN <<>> ELSE queue[c]]
          /\ draining' = [draining EXCEPT ![c] = FALSE]
          /\ handled' = handled
      BY <1>3 DEF TakeNext
    <2>2. LoopEnds(c, cut)
      BY <1>0, <2>1 DEF LoopEnds
    <2>3. (IF cut THEN <<>> ELSE queue[c]) \in Seq(1..MaxEvents)
      BY <1>0, <1>1
    <2>4. queue' \in [Consumers -> Seq(1..MaxEvents)] /\ handling' \in [Consumers -> Seq(1..MaxEvents)]
      BY <1>0, <1>1, <2>1, <2>3
    <2>5. Len(queue'[c]) <= MaxQueue /\ Len(handling'[c]) <= 1
      BY <1>0, <1>1, <2>2 DEF LoopEnds
    <2> QED  BY <1>0, <2>1, <2>2, <2>4, <2>5
  <1> QED  BY <1>2, <1>3

--------------------------------------------------------------------------------
(* What a step means for one plugin of one state: its feed moves as OrderedFeed *)
(* lets it, and the invariant is kept.                                          *)
Kept(c) == Fresh(c) /\ NothingSkipped(c) /\ PatienceHolds(c)
Connected(c) == c[1] <= attached /\ ~disconnected[c]

FeedMoves(c) ==
  \/ /\ Connected(c) /\ Connected(c)'
     /\ IsPrefix(addressed[c], addressed'[c]) /\ IsPrefix(handled[c], handled'[c])
     /\ IsPrefix(handled'[c], addressed'[c])
  \/ /\ Connected(c) /\ ~Connected(c)'
     /\ IsPrefix(addressed[c], addressed'[c]) /\ handled'[c] = handled[c]
  \/ addressed'[c] = <<>> /\ handled'[c] = <<>> /\ Connected(c)'
  \/ addressed'[c] = addressed[c] /\ handled'[c] = handled[c] /\ (Connected(c)' <=> Connected(c))

(* A consumer the step does not touch.                                          *)
LEMMA Untouched ==
  ASSUME NEW c, Kept(c), attached' = attached,
         UNCHANGED <<queue[c], draining[c], violations[c], disconnected[c], handling[c], addressed[c], handled[c]>>
  PROVE  Kept(c)' /\ FeedMoves(c)
  BY DEF Kept, Fresh, NothingSkipped, PatienceHolds, FeedMoves, Connected

LEMMA AttachStateKeeps ==
  ASSUME HubInv, AttachState
  PROVE  HubTypeOK' /\ \A c \in Consumers : Kept(c)' /\ FeedMoves(c)
  <1>1. HubTypeOK'
    BY HubBounds DEF HubInv, HubTypeOK, AttachState
  <1>2. ASSUME NEW c \in Consumers PROVE Kept(c)' /\ FeedMoves(c)
    <2>0. attached \in Nat /\ c[1] \in Nat
      BY <1>2, HubBounds DEF HubInv, HubTypeOK, Consumers
    <2>1. /\ attached' = attached + 1
          /\ queue' = queue /\ draining' = draining /\ violations' = violations
          /\ disconnected' = disconnected /\ handling' = handling
          /\ addressed' = addressed /\ handled' = handled
      BY DEF AttachState
    <2>2. Fresh(c) /\ NothingSkipped(c) /\ PatienceHolds(c)
      BY <1>2 DEF HubInv
    <2>3. c[1] > attached' => c[1] > attached
      BY <2>0, <2>1
    <2>4. Fresh(c)' /\ NothingSkipped(c)' /\ PatienceHolds(c)'
      BY <2>1, <2>2, <2>3 DEF Fresh, NothingSkipped, PatienceHolds
    <2>5. FeedMoves(c)
      <3>1. CASE c[1] = attached + 1
        <4>1. c[1] > attached /\ c[1] <= attached'
          BY <2>0, <2>1, <3>1
        <4> QED  BY <2>1, <2>2, <4>1 DEF Fresh, FeedMoves, Connected
      <3>2. CASE c[1] # attached + 1
        <4>1. c[1] <= attached' <=> c[1] <= attached
          BY <2>0, <2>1, <3>2
        <4>2. Connected(c)' <=> Connected(c)
          BY <2>1, <4>1 DEF Connected
        <4> QED  BY <2>1, <4>2 DEF FeedMoves
      <3> QED  BY <3>1, <3>2
    <2> QED  BY <2>4, <2>5 DEF Kept
  <1> QED  BY <1>1, <1>2

(* drain's loop, begun (patience as it was) or gone on (after a handler).       *)
LEMMA LoopKeeps ==
  ASSUME HubInv, NEW c \in Consumers, NEW cut \in BOOLEAN, TakeNext(c, cut),
         attached' = attached, dispatched' = dispatched, addressed' = addressed,
         violations' \in [Consumers -> 0..MaxViolations], disconnected' \in [Consumers -> BOOLEAN],
         \A d \in Consumers \ {c} : violations'[d] = violations[d] /\ disconnected'[d] = disconnected[d],
         disconnected[c] => cut, disconnected'[c] <=> cut, ~cut => violations'[c] < MaxViolations,
         draining[c] \/ handling[c] # <<>>
  PROVE  HubTypeOK' /\ \A d \in Consumers : Kept(d)' /\ FeedMoves(d)
  <1>0. HubTypeOK /\ \A d \in Consumers : Fresh(d) /\ NothingSkipped(d) /\ PatienceHolds(d)
    BY DEF HubInv
  <1>1. /\ queue' \in [Consumers -> Seq(1..MaxEvents)] /\ Len(queue'[c]) <= MaxQueue
        /\ handling' \in [Consumers -> Seq(1..MaxEvents)] /\ Len(handling'[c]) <= 1
        /\ handled' \in [Consumers -> Seq(1..MaxEvents)] /\ draining' \in [Consumers -> BOOLEAN]
        /\ \A d \in Consumers \ {c} : /\ queue'[d] = queue[d] /\ handling'[d] = handling[d]
                                     /\ handled'[d] = handled[d] /\ draining'[d] = draining[d]
        /\ (~cut /\ TakesHead(c)) \/ LoopEnds(c, cut)
    BY <1>0, TakeNextTakes
  <1>2. HubTypeOK'
    <2>1. \A d \in Consumers : Len(queue'[d]) <= MaxQueue /\ Len(handling'[d]) <= 1
      BY <1>0, <1>1 DEF HubTypeOK
    <2> QED  BY <1>0, <1>1, <2>1 DEF HubTypeOK
  <1>3. ASSUME NEW d \in Consumers, d # c PROVE Kept(d)' /\ FeedMoves(d)
    <2>1. Kept(d)
      BY <1>0 DEF Kept
    <2> QED  BY <1>1, <1>3, <2>1, Untouched
  <1>4. Connected(c) <=> ~disconnected[c]
    <2>1. c[1] \in Nat /\ attached \in Nat
      BY <1>0, HubBounds DEF Consumers, HubTypeOK
    <2>2. ~(c[1] > attached)
      BY <1>0 DEF Fresh
    <2> QED  BY <2>1, <2>2 DEF Connected
  <1>5. Connected(c)' <=> ~cut
    <2>1. c[1] \in Nat /\ attached \in Nat
      BY <1>0, HubBounds DEF Consumers, HubTypeOK
    <2>2. ~(c[1] > attached)
      BY <1>0 DEF Fresh
    <2> QED  BY <2>1, <2>2 DEF Connected
  <1>6. /\ queue[c] \in Seq(1..MaxEvents) /\ handled[c] \in Seq(1..MaxEvents)
        /\ addressed[c] \in Seq(1..MaxEvents) /\ addressed'[c] = addressed[c]
    BY <1>0 DEF HubTypeOK
  <1>7. IsPrefix(addressed[c], addressed[c]) /\ IsPrefix(handled[c], handled[c])
    BY <1>6, PrefixOfItself
  <1>10. ~(c[1] > attached) /\ attached' = attached
    BY <1>0 DEF Fresh
  <1>8. ASSUME ~cut PROVE Kept(c)' /\ FeedMoves(c)
    <2>1. ~disconnected[c] /\ addressed[c] = handled[c] \o queue[c]
      BY <1>0, <1>8 DEF NothingSkipped
    <2>2. /\ handled'[c] \o queue'[c] = addressed[c] /\ IsPrefix(handled[c], handled'[c])
          /\ handled'[c] \in Seq(1..MaxEvents) /\ queue'[c] \in Seq(1..MaxEvents)
      <3>1. CASE TakesHead(c)
        <4>1. queue[c] # <<>> /\ handled'[c] = Append(handled[c], Head(queue[c])) /\ queue'[c] = Tail(queue[c])
          BY <3>1 DEF TakesHead
        <4>2. /\ Append(handled[c], Head(queue[c])) \o Tail(queue[c]) = handled[c] \o queue[c]
              /\ IsPrefix(handled[c], Append(handled[c], Head(queue[c])))
          <5>1. \A s, q \in Seq(1..MaxEvents) : q # <<>> =>
                   Append(s, Head(q)) \o Tail(q) = s \o q /\ IsPrefix(s, Append(s, Head(q)))
            BY MoveHead
          <5> QED  BY <1>6, <4>1, <5>1
        <4> QED  BY <1>1, <2>1, <4>1, <4>2
      <3>2. CASE LoopEnds(c, cut)
        BY <1>6, <1>7, <1>8, <2>1, <3>2 DEF LoopEnds
      <3> QED  BY <1>1, <3>1, <3>2
    <2>3. IsPrefix(handled'[c], addressed'[c])
      <3>1. IsPrefix(handled'[c], handled'[c] \o queue'[c])
        BY <2>2, PrefixOfConcat
      <3> QED  BY <1>6, <2>2, <3>1
    <2>4. FeedMoves(c)
      BY <1>4, <1>5, <1>6, <1>7, <1>8, <2>1, <2>2, <2>3 DEF FeedMoves
    <2>5. Fresh(c)' /\ NothingSkipped(c)' /\ PatienceHolds(c)'
      <3>1. Fresh(c)'
        BY <1>10 DEF Fresh
      <3>2. NothingSkipped(c)'
        BY <1>6, <2>2 DEF NothingSkipped
      <3>3. PatienceHolds(c)'
        BY <1>8 DEF PatienceHolds
      <3> QED  BY <3>1, <3>2, <3>3
    <2> QED  BY <2>4, <2>5 DEF Kept
  <1>9. ASSUME cut PROVE Kept(c)' /\ FeedMoves(c)
    <2>1. LoopEnds(c, cut)
      BY <1>1, <1>9
    <2>2. FeedMoves(c)
      BY <1>4, <1>5, <1>6, <1>7, <1>9, <2>1 DEF FeedMoves, LoopEnds
    <2>3. Fresh(c)' /\ NothingSkipped(c)' /\ PatienceHolds(c)'
      <3>1. Fresh(c)'
        BY <1>10 DEF Fresh
      <3>2. NothingSkipped(c)'
        BY <1>9 DEF NothingSkipped
      <3>3. PatienceHolds(c)'
        BY <1>9, <2>1 DEF PatienceHolds, LoopEnds
      <3> QED  BY <3>1, <3>2, <3>3
    <2> QED  BY <2>2, <2>3 DEF Kept
  <1> QED  BY <1>2, <1>3, <1>8, <1>9

LEMMA DrainStartsKeeps ==
  ASSUME HubInv, NEW c \in Consumers, DrainStarts(c)
  PROVE  HubTypeOK' /\ \A d \in Consumers : Kept(d)' /\ FeedMoves(d)
  <1>1. /\ attached' = attached /\ dispatched' = dispatched /\ addressed' = addressed
        /\ violations' = violations /\ disconnected' = disconnected
        /\ draining[c] /\ TakeNext(c, disconnected[c])
    BY DEF DrainStarts
  <1>2. /\ violations \in [Consumers -> 0..MaxViolations] /\ disconnected \in [Consumers -> BOOLEAN]
        /\ disconnected[c] \in BOOLEAN /\ ~disconnected[c] => violations[c] < MaxViolations
    BY DEF HubInv, HubTypeOK, PatienceHolds
  <1> QED  BY <1>1, <1>2, LoopKeeps

LEMMA HandlerReturnsKeeps ==
  ASSUME HubInv, NEW c \in Consumers, NEW slow \in BOOLEAN, HandlerReturns(c, slow)
  PROVE  HubTypeOK' /\ \A d \in Consumers : Kept(d)' /\ FeedMoves(d)
  <1> DEFINE spent == slow /\ violations[c] + 1 >= MaxViolations
             cut == disconnected[c] \/ spent
  <1>1. /\ attached' = attached /\ dispatched' = dispatched /\ addressed' = addressed
        /\ violations' = [violations EXCEPT ![c] = IF slow THEN violations[c] + 1 ELSE violations[c]]
        /\ disconnected' = [disconnected EXCEPT ![c] = disconnected[c] \/ spent]
        /\ handling[c] # <<>> /\ TakeNext(c, cut)
    BY DEF HandlerReturns
  <1>2. /\ violations \in [Consumers -> 0..MaxViolations] /\ disconnected \in [Consumers -> BOOLEAN]
        /\ violations[c] < MaxViolations /\ violations[c] \in Nat /\ MaxViolations \in Nat
    BY <1>1, HubBounds DEF HubInv, HubTypeOK, PatienceHolds
  <1>3. violations' \in [Consumers -> 0..MaxViolations]
    <2>1. (IF slow THEN violations[c] + 1 ELSE violations[c]) \in 0..MaxViolations
      BY <1>2
    <2> QED  BY <1>1, <1>2, <2>1
  <1>4. spent \in BOOLEAN /\ cut \in BOOLEAN
    OBVIOUS
  <1>5. ~cut => violations'[c] < MaxViolations
    BY <1>1, <1>2
  <1> HIDE DEF spent
  <1>6. disconnected' \in [Consumers -> BOOLEAN] /\ (disconnected'[c] <=> cut)
    BY <1>1, <1>2, <1>4
  <1>7. \A d \in Consumers \ {c} : violations'[d] = violations[d] /\ disconnected'[d] = disconnected[d]
    BY <1>1, <1>2
  <1>8. disconnected[c] => cut
    OBVIOUS
  <1> HIDE DEF cut
  <1> QED  BY <1>1, <1>3, <1>4, <1>5, <1>6, <1>7, <1>8, LoopKeeps

(* An event reaches a plugin whole, all its copies, or cuts it off.             *)
LEMMA DispatchEffect ==
  ASSUME NEW a, NEW kind, Dispatch(a, kind), NEW c \in Consumers
  PROVE  /\ a <= attached /\ attached' = attached
         /\ violations' = violations /\ handling' = handling /\ handled' = handled
         /\ (c[1] = a /\ ~disconnected[c]) =>
              /\ addressed'[c] = addressed[c] \o Events(c, kind)
              /\ Fits(c, kind) => queue'[c] = queue[c] \o Events(c, kind) /\ ~disconnected'[c]
              /\ ~Fits(c, kind) => queue'[c] = <<>> /\ disconnected'[c]
         /\ ~(c[1] = a /\ ~disconnected[c]) =>
              /\ addressed'[c] = addressed[c] /\ queue'[c] = queue[c]
              /\ (disconnected'[c] <=> disconnected[c]) /\ (draining'[c] <=> draining[c])
  BY DEF Dispatch

LEMMA DispatchTypes ==
  ASSUME HubInv, NEW a \in 1..MaxAttachments, NEW kind \in Kinds, Dispatch(a, kind)
  PROVE  HubTypeOK'
  <1>1. /\ dispatched' = dispatched + 1 /\ dispatched < MaxEvents /\ dispatched \in 0..MaxEvents
        /\ attached' = attached /\ violations' = violations /\ handling' = handling /\ handled' = handled
    BY DEF Dispatch, HubInv, HubTypeOK
  <1>2. \A c \in Consumers : /\ Events(c, kind) \in Seq(1..MaxEvents)
                             /\ Len(Events(c, kind)) = Copies(c[2], kind) /\ Copies(c[2], kind) \in Nat
    BY <1>1, EventsType, CopiesType
  <1>3. /\ queue \in [Consumers -> Seq(1..MaxEvents)] /\ addressed \in [Consumers -> Seq(1..MaxEvents)]
        /\ \A c \in Consumers : Len(queue[c]) <= MaxQueue
    BY DEF HubInv, HubTypeOK
  <1>4. \A s, t \in Seq(1..MaxEvents) : s \o t \in Seq(1..MaxEvents) /\ Len(s \o t) = Len(s) + Len(t)
    BY ConcatProperties
  <1>5. \A c \in Consumers : addressed'[c] \in Seq(1..MaxEvents)
    <2> TAKE c \in Consumers
    <2>1. addressed[c] \in Seq(1..MaxEvents) /\ addressed[c] \o Events(c, kind) \in Seq(1..MaxEvents)
      BY <1>2, <1>3, <1>4
    <2>2. addressed'[c] = addressed[c] \o Events(c, kind) \/ addressed'[c] = addressed[c]
      BY DispatchEffect
    <2> QED  BY <2>1, <2>2
  <1>6. \A c \in Consumers : queue'[c] \in Seq(1..MaxEvents) /\ Len(queue'[c]) <= MaxQueue
    <2> TAKE c \in Consumers
    <2>1. queue[c] \in Seq(1..MaxEvents) /\ Len(queue[c]) \in Nat /\ MaxQueue \in Nat
            /\ <<>> \in Seq(1..MaxEvents) /\ Len(<<>>) = 0
      BY <1>3, HubBounds
    <2>2. CASE queue'[c] = queue[c] \/ queue'[c] = <<>>
      <3>1. Len(queue[c]) <= MaxQueue /\ Len(<<>>) <= MaxQueue
        BY <1>3, <2>1
      <3> QED  BY <2>1, <2>2, <3>1
    <2>3. CASE Fits(c, kind) /\ queue'[c] = queue[c] \o Events(c, kind)
      <3>1. Len(Events(c, kind)) <= MaxQueue - Len(queue[c]) /\ Len(Events(c, kind)) \in Nat
        BY <1>2, <2>3 DEF Fits
      <3>2. Len(queue[c] \o Events(c, kind)) = Len(queue[c]) + Len(Events(c, kind))
        BY <1>2, <1>4, <2>1
      <3>3. queue[c] \o Events(c, kind) \in Seq(1..MaxEvents)
        BY <1>2, <1>4, <2>1
      <3>4. Len(queue[c]) + Len(Events(c, kind)) <= MaxQueue
        BY <2>1, <3>1
      <3> QED  BY <2>3, <3>2, <3>3, <3>4
    <2> QED  BY <2>2, <2>3, DispatchEffect
  <1>7. /\ queue' = [c \in Consumers |-> queue'[c]] /\ addressed' = [c \in Consumers |-> addressed'[c]]
        /\ draining' \in [Consumers -> BOOLEAN] /\ disconnected' \in [Consumers -> BOOLEAN]
    BY DEF Dispatch
  <1>8. queue' \in [Consumers -> Seq(1..MaxEvents)] /\ addressed' \in [Consumers -> Seq(1..MaxEvents)]
    BY <1>5, <1>6, <1>7
  <1>9. dispatched' \in 0..MaxEvents
    BY <1>1, HubBounds
  <1> QED  BY <1>1, <1>6, <1>7, <1>8, <1>9 DEF HubInv, HubTypeOK

LEMMA DispatchKeeps ==
  ASSUME HubInv, NEW a \in 1..MaxAttachments, NEW kind \in Kinds, Dispatch(a, kind)
  PROVE  HubTypeOK' /\ \A d \in Consumers : Kept(d)' /\ FeedMoves(d)
  <1>1. ASSUME NEW c \in Consumers PROVE Kept(c)' /\ FeedMoves(c)
    <2>1. /\ Fresh(c) /\ NothingSkipped(c) /\ PatienceHolds(c)
          /\ queue[c] \in Seq(1..MaxEvents) /\ addressed[c] \in Seq(1..MaxEvents) /\ handled[c] \in Seq(1..MaxEvents)
          /\ attached \in Nat /\ c[1] \in Nat
      BY <1>1, HubBounds DEF HubInv, HubTypeOK, Consumers
    <2>2. Events(c, kind) \in Seq(1..MaxEvents)
      BY EventsType DEF Dispatch, HubInv, HubTypeOK
    <2>3. attached' = attached /\ a <= attached /\ violations' = violations /\ handling' = handling /\ handled' = handled
      BY DispatchEffect
    <2>4. CASE ~(c[1] = a /\ ~disconnected[c])
      <3>1. /\ addressed'[c] = addressed[c] /\ queue'[c] = queue[c]
            /\ (disconnected'[c] <=> disconnected[c]) /\ (draining'[c] <=> draining[c])
        BY <2>4, DispatchEffect
      <3>2. Fresh(c)' /\ NothingSkipped(c)' /\ PatienceHolds(c)'
        BY <2>1, <2>3, <3>1 DEF Fresh, NothingSkipped, PatienceHolds
      <3>3. FeedMoves(c)
        BY <2>3, <3>1 DEF FeedMoves, Connected
      <3> QED  BY <3>2, <3>3 DEF Kept
    <2>5. CASE c[1] = a /\ ~disconnected[c]
      <3>1. /\ addressed'[c] = addressed[c] \o Events(c, kind) /\ addressed[c] = handled[c] \o queue[c]
            /\ Fits(c, kind) => queue'[c] = queue[c] \o Events(c, kind) /\ ~disconnected'[c]
            /\ ~Fits(c, kind) => queue'[c] = <<>> /\ disconnected'[c]
        BY <2>1, <2>5, DispatchEffect DEF NothingSkipped
      <3>2. IsPrefix(addressed[c], addressed'[c]) /\ IsPrefix(handled[c], handled[c])
        <4>1. \A s, t \in Seq(1..MaxEvents) : IsPrefix(s, s \o t) /\ IsPrefix(s, s)
          BY PrefixOfConcat, PrefixOfItself
        <4> QED  BY <2>1, <2>2, <3>1, <4>1
      <3>3. Connected(c) /\ ~(c[1] > attached)
        BY <2>1, <2>3, <2>5 DEF Connected
      <3>4. CASE Fits(c, kind)
        <4>1. queue[c] \o Events(c, kind) \in Seq(1..MaxEvents)
          BY <2>1, <2>2, ConcatProperties
        <4>2. \A s, t, u \in Seq(1..MaxEvents) : (s \o t) \o u = s \o (t \o u)
          BY ConcatAssociative, SMTT(60)
        <4>3. addressed'[c] = handled[c] \o (queue[c] \o Events(c, kind))
          <5>1. addressed'[c] = (handled[c] \o queue[c]) \o Events(c, kind)
            BY <3>1
          <5>2. handled[c] \in Seq(1..MaxEvents) /\ queue[c] \in Seq(1..MaxEvents)
            BY <2>1
          <5>3. (handled[c] \o queue[c]) \o Events(c, kind) = handled[c] \o (queue[c] \o Events(c, kind))
            BY <2>2, <4>2, <5>2
          <5> QED  BY <5>1, <5>3
        <4>4. IsPrefix(handled[c], addressed'[c])
          BY <2>1, <4>1, <4>3, PrefixOfConcat
        <4>5. Connected(c)'
          BY <2>3, <3>1, <3>3, <3>4 DEF Connected
        <4>6. FeedMoves(c)
          BY <2>3, <3>2, <3>3, <4>4, <4>5 DEF FeedMoves
        <4>7. Fresh(c)' /\ NothingSkipped(c)' /\ PatienceHolds(c)'
          BY <2>1, <2>3, <2>5, <3>1, <3>3, <3>4, <4>3 DEF Fresh, NothingSkipped, PatienceHolds
        <4> QED  BY <4>6, <4>7 DEF Kept
      <3>5. CASE ~Fits(c, kind)
        <4>1. ~Connected(c)'
          BY <3>1, <3>5 DEF Connected
        <4>2. FeedMoves(c)
          BY <2>3, <3>2, <3>3, <4>1 DEF FeedMoves
        <4>3. Fresh(c)' /\ NothingSkipped(c)' /\ PatienceHolds(c)'
          BY <2>1, <2>3, <2>5, <3>1, <3>3, <3>5 DEF Fresh, NothingSkipped, PatienceHolds
        <4> QED  BY <4>2, <4>3 DEF Kept
      <3> QED  BY <3>4, <3>5
    <2> QED  BY <2>4, <2>5
  <1> QED  BY <1>1, DispatchTypes

--------------------------------------------------------------------------------
LEMMA HubStep ==
  HubInv /\ [HubNext]_hubVars => HubInv' /\ \A c \in Consumers : FeedMoves(c)
  <1> SUFFICES ASSUME HubInv, [HubNext]_hubVars
               PROVE  HubTypeOK' /\ \A c \in Consumers : Kept(c)' /\ FeedMoves(c)
    BY DEF HubInv, Kept
  <1>1. CASE UNCHANGED hubVars
    <2>1. HubTypeOK'
      BY <1>1 DEF hubVars, HubInv, HubTypeOK
    <2>2. ASSUME NEW c \in Consumers PROVE Kept(c)' /\ FeedMoves(c)
      BY <1>1, <2>2, Untouched DEF hubVars, HubInv, Kept
    <2> QED  BY <2>1, <2>2
  <1> QED
    BY <1>1, AttachStateKeeps, DispatchKeeps, DrainStartsKeeps, HandlerReturnsKeeps DEF HubNext

(* The queues of the plugins stay within DuelEventPluginHubOptions.maxQueue and *)
(* a plugin's slow handlers within maxViolations, whatever the plugins do.      *)
THEOREM HubStaysBounded == HubSpec => []HubTypeOK
  <1>1. HubInv => HubTypeOK
    BY DEF HubInv
  <1> QED  BY HubInitInv, HubStep, <1>1, PTL DEF HubSpec

LEMMA HubStepRefines ==
  (\A c \in Consumers : FeedMoves(c)) => EventFeeds!Next
  <1> SUFFICES ASSUME NEW c \in Consumers, FeedMoves(c)
               PROVE  EventFeeds!Flow(c) \/ EventFeeds!Cut(c) \/ EventFeeds!Renew(c) \/ EventFeeds!Quiet(c)
    BY DEF EventFeeds!Next
  <1> DEFINE open == {d \in Consumers : d[1] <= attached /\ ~disconnected[d]}
  <1>1. (c \in open <=> Connected(c)) /\ (c \in open' <=> Connected(c)')
    BY DEF Connected
  <1> HIDE DEF open
  <1> QED
    BY <1>1 DEF FeedMoves, EventFeeds!Flow, EventFeeds!Cut, EventFeeds!Renew, EventFeeds!Quiet,
       EventFeeds!IsPrefix, IsPrefix, open

(* Every plugin's feed implements the ordered feed, in every state of the room: *)
(* what it is handed is a prefix of what was dispatched to it, all or nothing   *)
(* (DuelEventPluginHub.enqueue and drain).                                      *)
THEOREM HubImplementsFeeds == HubSpec => HubIsOrderedFeed
  <1>1. HubInit => EventFeeds!Init
    BY DEF HubInit, EventFeeds!Init
  <1>2. HubInv /\ [HubNext]_hubVars => HubInv' /\ [EventFeeds!Next]_(EventFeeds!vars)
    BY HubStep, HubStepRefines
  <1> QED
    BY HubInitInv, <1>1, <1>2, PTL DEF HubSpec, HubIsOrderedFeed, EventFeeds!Spec

--------------------------------------------------------------------------------
(* The lists in force are never lost to a reload: for any number of timer       *)
(* callbacks, rooms, releases and failed rebuilds.  The argument is the overlap *)
(* guard's: one cycle at a time is awake, so what it has read is at least what  *)
(* it will replace, and at most what is on disk.                                *)

Version == Nat \ {0}
Catalog == [formats : Nat, base : Nat]
Stages == {"asleep", "compare", "edo", "ygo", "swap"}
Cycle == [at : Stages, seen : Nat \X Nat, edo : Nat, ygo : Catalog]
BanRoomType == [part : {"none", "formats", "base"}, hash : Nat, edoHash : Nat,
                name : {"unsettled", "N/A", "none", "formats", "base"}]

ReloadTypeOK ==
  /\ disk \in [edo : Version, formats : Version, base : Version]
  /\ boot \in {"edo", "ygo", "baseline", "done"}
  /\ edoLists \in Nat /\ ygoLists \in Catalog
  /\ running \in BOOLEAN
  /\ tick \in [Ticks -> Cycle]
  /\ banRoom \in [BanRooms -> BanRoomType]

(* A catalog that was read is no newer than another, or than the disk.          *)
NoNewer(lists, other) == lists.formats <= other.formats /\ lists.base <= other.base
Filled(lists) == lists.formats > 0 /\ lists.base > 0

(* The catalogs hold what was on disk once, from the moment boot loads them.    *)
ListsAreRead ==
  /\ edoLists <= disk.edo /\ NoNewer(ygoLists, disk)
  /\ IF boot = "edo" THEN edoLists = 0 ELSE edoLists > 0
  /\ IF boot \in {"edo", "ygo"} THEN ygoLists = Nothing ELSE Filled(ygoLists)

(* The overlap guard: a cycle that is awake is the only one.                    *)
OneCycle ==
  /\ \A t \in Ticks : tick[t].at # "asleep" => running /\ boot = "done"
  /\ \A t, u \in Ticks : tick[t].at # "asleep" /\ tick[u].at # "asleep" => t = u

(* What a cycle has read lies between the lists in force and the disk.          *)
CycleIsAhead ==
  \A t \in Ticks :
    /\ tick[t].at \in {"ygo", "swap"} =>
         edoLists <= tick[t].edo /\ tick[t].edo <= disk.edo /\ tick[t].edo > 0
    /\ tick[t].at = "swap" =>
         NoNewer(ygoLists, tick[t].ygo) /\ NoNewer(tick[t].ygo, disk) /\ Filled(tick[t].ygo)

(* A room's list was once in force, and its name is lost only to a newer one.   *)
RoomsAreBehind ==
  \A r \in BanRooms :
    /\ banRoom[r].part = "none" => banRoom[r] = NoBanRoom
    /\ banRoom[r].part # "none" => banRoom[r].hash <= ygoLists[banRoom[r].part]
    /\ banRoom[r].name = "N/A" =>
         banRoom[r].part # "none" /\ ygoLists[banRoom[r].part] > banRoom[r].hash

ReloadInv == ReloadTypeOK /\ ListsAreRead /\ OneCycle /\ CycleIsAhead /\ RoomsAreBehind

ReloadSpec == ReloadInit /\ [][ReloadNext]_reloadVars

------------------------------------------------------------------------------
(* The invariant holds before boot.                                             *)
LEMMA ReloadInitInv == ReloadInit => ReloadInv
  <1> SUFFICES ASSUME ReloadInit PROVE ReloadInv
    OBVIOUS
  <1> USE DEF ReloadInit
  <1>1. ReloadTypeOK
    <2>1. Asleep \in Cycle /\ NoBanRoom \in BanRoomType
      BY DEF Asleep, Nothing, Cycle, Stages, Catalog, NoBanRoom, BanRoomType
    <2>2. Nothing \in Catalog
      BY DEF Nothing, Catalog
    <2>3. disk \in [edo : Version, formats : Version, base : Version]
      BY DEF Version
    <2>4. tick \in [Ticks -> Cycle] /\ banRoom \in [BanRooms -> BanRoomType]
      BY <2>1
    <2> QED  BY <2>2, <2>3, <2>4 DEF ReloadTypeOK
  <1>2. ListsAreRead
    BY DEF ListsAreRead, NoNewer, Nothing
  <1>3. OneCycle /\ CycleIsAhead
    BY DEF OneCycle, CycleIsAhead, Asleep
  <1>4. RoomsAreBehind
    BY DEF RoomsAreBehind, NoBanRoom
  <1> QED  BY <1>1, <1>2, <1>3, <1>4 DEF ReloadInv

(* A release only adds: every part of the disk stays or grows.                  *)
LEMMA PublishAdds ==
  ASSUME ReloadTypeOK, Publish
  PROVE  /\ disk' \in [edo : Version, formats : Version, base : Version]
         /\ disk.edo <= disk'.edo /\ disk.formats <= disk'.formats /\ disk.base <= disk'.base
  <1>1. DOMAIN disk = {"edo", "formats", "base"}
    BY DEF ReloadTypeOK
  <1>2. PICK parts \in SUBSET DOMAIN disk :
          disk' = [part \in DOMAIN disk |-> IF part \in parts THEN disk[part] + 1 ELSE disk[part]]
    BY DEF Publish
  <1> QED  BY <1>1, <1>2 DEF ReloadTypeOK, Version

(* Types.                                                                       *)
LEMMA ReloadTypeStep == ReloadTypeOK /\ [ReloadNext]_reloadVars => ReloadTypeOK'
  <1> SUFFICES ASSUME ReloadTypeOK, [ReloadNext]_reloadVars PROVE ReloadTypeOK'
    OBVIOUS
  <1> USE DEF ReloadTypeOK
  <1>1. CASE Publish
    BY <1>1, PublishAdds DEF Publish
  <1>2. CASE BootEdo
    BY <1>2 DEF BootEdo, Version
  <1>3. CASE BootYgo
    BY <1>3 DEF BootYgo, YgoOnDisk, Catalog, Version
  <1>4. CASE Baseline
    BY <1>4 DEF Baseline
  <1>5. ASSUME NEW t \in Ticks, TickStarts(t) PROVE ReloadTypeOK'
    <2>1. tick' \in [Ticks -> Cycle]
      BY <1>5, ZenonT(40) DEF TickStarts, Cycle, Stages, Version
    <2> QED  BY <1>5, <2>1 DEF TickStarts
  <1>6. ASSUME NEW t \in Ticks, Compare(t) PROVE ReloadTypeOK'
    <2>1. Asleep \in Cycle
      BY DEF Asleep, Nothing, Cycle, Stages, Catalog
    <2>2. [tick[t] EXCEPT !.at = "edo", !.seen = <<tick[t].seen[1], disk.formats>>] \in Cycle
      BY ZenonT(40) DEF Cycle, Stages, Version
    <2>3. tick' \in [Ticks -> Cycle]
      BY <1>6, <2>1, <2>2 DEF Compare
    <2>4. running' \in BOOLEAN
      BY <1>6 DEF Compare
    <2> QED  BY <1>6, <2>3, <2>4 DEF Compare
  <1>7. ASSUME NEW t \in Ticks, LoadEdo(t) PROVE ReloadTypeOK'
    <2>1. tick' \in [Ticks -> Cycle]
      BY <1>7, ZenonT(40) DEF LoadEdo, Cycle, Stages, Version
    <2> QED  BY <1>7, <2>1 DEF LoadEdo
  <1>8. ASSUME NEW t \in Ticks, LoadYgo(t) PROVE ReloadTypeOK'
    <2>1. tick' \in [Ticks -> Cycle]
      BY <1>8, ZenonT(40) DEF LoadYgo, Cycle, Stages, Version, YgoOnDisk, Catalog
    <2> QED  BY <1>8, <2>1 DEF LoadYgo
  <1>9. ASSUME NEW t \in Ticks, Swap(t) PROVE ReloadTypeOK'
    <2>1. tick' \in [Ticks -> Cycle]
      BY <1>9 DEF Swap, Cycle, Stages, Asleep, Nothing, Catalog
    <2>2. edoLists' \in Nat /\ ygoLists' \in Catalog
      BY <1>9 DEF Swap, Cycle
    <2> QED  BY <1>9, <2>1, <2>2 DEF Swap
  <1>10. ASSUME NEW t \in Ticks, RebuildFails(t) PROVE ReloadTypeOK'
    <2>1. tick' \in [Ticks -> Cycle]
      BY <1>10 DEF RebuildFails, Cycle, Stages, Asleep, Nothing, Catalog
    <2> QED  BY <1>10, <2>1 DEF RebuildFails
  <1>11. ASSUME NEW r \in BanRooms, OpenBanRoom(r) PROVE ReloadTypeOK'
    <2>1. banRoom' \in [BanRooms -> BanRoomType]
      BY <1>11 DEF OpenBanRoom, BanRoomType, Catalog
    <2> QED  BY <1>11, <2>1 DEF OpenBanRoom
  <1>12. ASSUME NEW r \in BanRooms, SettleBanRoom(r) PROVE ReloadTypeOK'
    <2>1. banRoom' \in [BanRooms -> BanRoomType]
      BY <1>12 DEF SettleBanRoom, BanRoomType
    <2> QED  BY <1>12, <2>1 DEF SettleBanRoom
  <1>13. CASE UNCHANGED reloadVars
    BY <1>13 DEF reloadVars
  <1> QED
    BY <1>1, <1>2, <1>3, <1>4, <1>5, <1>6, <1>7, <1>8, <1>9, <1>10, <1>11, <1>12, <1>13 DEF ReloadNext

(* A room's part of a catalog.                                                  *)
LEMMA PartsOrder ==
  ASSUME NEW y \in Catalog, NEW z \in Catalog, NoNewer(y, z)
  PROVE  \A part \in {"formats", "base"} : y[part] <= z[part] /\ y[part] \in Nat /\ z[part] \in Nat
  BY DEF Catalog, NoNewer

(* Boot's three steps run before any cycle and any room.                        *)
LEMMA BootKeeps ==
  ASSUME ReloadInv, ReloadTypeOK', BootEdo \/ BootYgo \/ Baseline
  PROVE  ReloadInv'
  <1> USE DEF ReloadInv, ReloadTypeOK
  <1>1. boot # "done" /\ (boot' = "done" => boot = "baseline")
    BY DEF BootEdo, BootYgo, Baseline
  <1>2. \A t \in Ticks : tick[t].at = "asleep" /\ tick' = tick
    BY <1>1 DEF OneCycle, BootEdo, BootYgo, Baseline
  <1>3. OneCycle' /\ CycleIsAhead'
    BY <1>2 DEF OneCycle, CycleIsAhead
  <1>4. ListsAreRead'
    BY DEF ListsAreRead, BootEdo, BootYgo, Baseline, YgoOnDisk, NoNewer, Filled, Version
  <1>5. RoomsAreBehind'
    <2>1. NoNewer(ygoLists, ygoLists')
      BY DEF ListsAreRead, BootEdo, BootYgo, Baseline, NoNewer, Nothing, YgoOnDisk, Catalog, Version
    <2>2. banRoom' = banRoom
      BY DEF BootEdo, BootYgo, Baseline
    <2>3. \A part \in {"formats", "base"} :
             ygoLists[part] <= ygoLists'[part] /\ ygoLists[part] \in Nat /\ ygoLists'[part] \in Nat
      BY <2>1, PartsOrder
    <2> QED  BY <2>2, <2>3 DEF RoomsAreBehind, BanRoomType
  <1> QED  BY <1>3, <1>4, <1>5

(* A cycle that is started, or goes on, and does not swap.                      *)
LEMMA TickKeeps ==
  ASSUME ReloadInv, ReloadTypeOK', NEW t \in Ticks,
         TickStarts(t) \/ Compare(t) \/ LoadEdo(t) \/ LoadYgo(t) \/ RebuildFails(t)
  PROVE  ReloadInv'
  <1> USE DEF ReloadInv
  <1>1. /\ disk' = disk /\ boot' = boot /\ edoLists' = edoLists
        /\ ygoLists' = ygoLists /\ banRoom' = banRoom
    BY DEF TickStarts, Compare, LoadEdo, LoadYgo, RebuildFails
  <1>2. ListsAreRead' /\ RoomsAreBehind'
    BY <1>1 DEF ListsAreRead, RoomsAreBehind
  <1>3. \A u \in Ticks \ {t} : tick'[u] = tick[u]
    BY DEF TickStarts, Compare, LoadEdo, LoadYgo, RebuildFails, ReloadTypeOK
  <1>4. \A u \in Ticks \ {t} : tick[u].at = "asleep"
    BY DEF OneCycle, TickStarts, Compare, LoadEdo, LoadYgo, RebuildFails
  <1>5. tick'[t].at # "asleep" => running' /\ boot = "done"
    <2>1. CASE TickStarts(t)
      BY <2>1 DEF TickStarts
    <2>2. CASE Compare(t)
      BY <2>2 DEF Compare, OneCycle, Asleep, ReloadTypeOK
    <2>3. CASE LoadEdo(t) \/ LoadYgo(t)
      BY <2>3 DEF LoadEdo, LoadYgo, OneCycle
    <2>4. CASE RebuildFails(t)
      BY <2>4 DEF RebuildFails, Asleep, ReloadTypeOK
    <2> QED  BY <2>1, <2>2, <2>3, <2>4
  <1>6. OneCycle'
    BY <1>1, <1>3, <1>4, <1>5 DEF OneCycle
  <1>7. CycleIsAhead'
    <2>1. CASE TickStarts(t) \/ Compare(t) \/ RebuildFails(t)
      <3>1. tick'[t].at \notin {"ygo", "swap"}
        <4>1. tick \in [Ticks -> Cycle] /\ DOMAIN tick[t] = {"at", "seen", "edo", "ygo"}
          BY DEF ReloadTypeOK, Cycle
        <4>2. CASE TickStarts(t)
          BY <4>1, <4>2 DEF TickStarts
        <4>3. CASE Compare(t)
          <5> DEFINE next == [tick[t] EXCEPT !.at = "edo", !.seen = <<tick[t].seen[1], disk.formats>>]
          <5>1. next.at = "edo"
            BY <4>1
          <5> HIDE DEF next
          <5>2. tick' = [tick EXCEPT ![t] = Asleep] \/ tick' = [tick EXCEPT ![t] = next]
            BY <4>3 DEF Compare, next
          <5> QED  BY <4>1, <5>1, <5>2 DEF Asleep
        <4>4. CASE RebuildFails(t)
          BY <4>1, <4>4 DEF RebuildFails, Asleep
        <4> QED  BY <2>1, <4>2, <4>3, <4>4
      <3> QED  BY <1>3, <1>4, <3>1 DEF CycleIsAhead
    <2>2. CASE LoadEdo(t)
      <3>1. tick'[t].at = "ygo" /\ tick'[t].edo = disk.edo
        BY <2>2 DEF LoadEdo, ReloadTypeOK, Cycle
      <3> QED  BY <1>1, <1>3, <1>4, <3>1 DEF CycleIsAhead, ListsAreRead, ReloadTypeOK, Version
    <2>3. CASE LoadYgo(t)
      <3>1. tick[t].at = "ygo" /\ tick'[t].at = "swap" /\ tick'[t].edo = tick[t].edo /\ tick'[t].ygo = YgoOnDisk
        BY <2>3 DEF LoadYgo, ReloadTypeOK, Cycle
      <3>2. NoNewer(ygoLists, YgoOnDisk) /\ NoNewer(YgoOnDisk, disk) /\ Filled(YgoOnDisk)
        BY DEF ListsAreRead, NoNewer, YgoOnDisk, Filled, ReloadTypeOK, Version
      <3>3. edoLists <= tick[t].edo /\ tick[t].edo <= disk.edo /\ tick[t].edo > 0
        BY <3>1 DEF CycleIsAhead
      <3> QED  BY <1>1, <1>3, <1>4, <3>1, <3>2, <3>3 DEF CycleIsAhead
    <2> QED  BY <2>1, <2>2, <2>3
  <1> QED  BY <1>2, <1>6, <1>7

(* What Swap puts in force is no older than what it replaces.                   *)
LEMMA SwapAdvances ==
  ASSUME ReloadInv, NEW t \in Ticks, Swap(t)
  PROVE  edoLists <= edoLists' /\ NoNewer(ygoLists, ygoLists')
  BY DEF ReloadInv, CycleIsAhead, Swap

LEMMA SwapKeeps ==
  ASSUME ReloadInv, ReloadTypeOK', NEW t \in Ticks, Swap(t)
  PROVE  ReloadInv'
  <1> USE DEF ReloadInv, ReloadTypeOK
  <1>1. /\ disk' = disk /\ boot' = boot /\ banRoom' = banRoom
        /\ edoLists' = tick[t].edo /\ ygoLists' = tick[t].ygo
    BY DEF Swap
  <1>2. \A u \in Ticks : tick'[u].at = "asleep"
    BY DEF Swap, OneCycle, Asleep
  <1>3. boot = "done"
    BY DEF Swap, OneCycle
  <1>4. ListsAreRead'
    BY <1>1, <1>3 DEF Swap, CycleIsAhead, ListsAreRead, NoNewer, Filled
  <1>5. OneCycle' /\ CycleIsAhead'
    BY <1>2 DEF OneCycle, CycleIsAhead
  <1>6. \A part \in {"formats", "base"} :
           ygoLists[part] <= ygoLists'[part] /\ ygoLists[part] \in Nat /\ ygoLists'[part] \in Nat
    BY SwapAdvances, PartsOrder
  <1>7. RoomsAreBehind'
    BY <1>1, <1>6 DEF RoomsAreBehind, BanRoomType
  <1> QED  BY <1>4, <1>5, <1>7

(* Rooms opened and settled.                                                    *)
LEMMA RoomKeeps ==
  ASSUME ReloadInv, ReloadTypeOK', NEW r \in BanRooms, OpenBanRoom(r) \/ SettleBanRoom(r)
  PROVE  ReloadInv'
  <1> USE DEF ReloadInv
  <1>1. /\ disk' = disk /\ boot' = boot /\ edoLists' = edoLists /\ ygoLists' = ygoLists
        /\ running' = running /\ tick' = tick
    BY DEF OpenBanRoom, SettleBanRoom
  <1>2. ListsAreRead' /\ OneCycle' /\ CycleIsAhead'
    BY <1>1 DEF ListsAreRead, OneCycle, CycleIsAhead
  <1>3. \A q \in BanRooms \ {r} : banRoom'[q] = banRoom[q]
    BY DEF OpenBanRoom, SettleBanRoom, ReloadTypeOK
  <1>4. ygoLists.formats \in Nat /\ ygoLists.base \in Nat
    BY DEF ReloadTypeOK, Catalog
  <1>5. /\ banRoom'[r].part \in {"formats", "base"}
        /\ banRoom'[r].hash <= ygoLists[banRoom'[r].part]
        /\ banRoom'[r].name = "N/A" => ygoLists[banRoom'[r].part] > banRoom'[r].hash
    <2>1. CASE OpenBanRoom(r)
      <3>1. PICK part \in {"formats", "base"} :
              banRoom' = [banRoom EXCEPT ![r] = [part |-> part, hash |-> ygoLists[part], edoHash |-> edoLists, name |-> "unsettled"]]
        BY <2>1 DEF OpenBanRoom
      <3>2. banRoom'[r] = [part |-> part, hash |-> ygoLists[part], edoHash |-> edoLists, name |-> "unsettled"]
        BY <3>1 DEF ReloadTypeOK
      <3> QED  BY <3>2, <1>4
    <2>2. CASE SettleBanRoom(r)
      <3>1. /\ banRoom'[r].part = banRoom[r].part /\ banRoom'[r].hash = banRoom[r].hash
            /\ banRoom'[r].name = IF ygoLists[banRoom[r].part] = banRoom[r].hash THEN banRoom[r].part ELSE "N/A"
        BY <2>2 DEF SettleBanRoom, ReloadTypeOK, BanRoomType
      <3>2. banRoom[r].part \in {"formats", "base"} /\ banRoom[r].hash \in Nat
        BY <2>2 DEF SettleBanRoom, RoomsAreBehind, ReloadTypeOK, BanRoomType
      <3>3. banRoom[r].hash <= ygoLists[banRoom[r].part] /\ ygoLists[banRoom[r].part] \in Nat
        BY <3>2, <1>4 DEF RoomsAreBehind
      <3>4. banRoom[r].part # "N/A"
        BY <3>2
      <3> QED  BY <3>1, <3>2, <3>3, <3>4
    <2> QED  BY <2>1, <2>2
  <1>6. RoomsAreBehind'
    BY <1>1, <1>3, <1>5 DEF RoomsAreBehind
  <1> QED  BY <1>2, <1>6

(* The invariant is inductive.                                                  *)
LEMMA ReloadStepInv == ReloadInv /\ [ReloadNext]_reloadVars => ReloadInv'
  <1> SUFFICES ASSUME ReloadInv, [ReloadNext]_reloadVars PROVE ReloadInv'
    OBVIOUS
  <1>0. ReloadTypeOK'
    BY ReloadTypeStep DEF ReloadInv
  <1>1. CASE Publish
    <2>1. disk.edo <= disk'.edo /\ disk.formats <= disk'.formats /\ disk.base <= disk'.base
      BY <1>1, PublishAdds DEF ReloadInv
    <2>2. /\ boot' = boot /\ edoLists' = edoLists /\ ygoLists' = ygoLists /\ running' = running
          /\ tick' = tick /\ banRoom' = banRoom
      BY <1>1 DEF Publish
    <2>3. ListsAreRead'
      BY <1>0, <2>1, <2>2 DEF ReloadInv, ReloadTypeOK, ListsAreRead, NoNewer, Filled, Catalog, Version
    <2>4. CycleIsAhead'
      BY <1>0, <2>1, <2>2 DEF ReloadInv, ReloadTypeOK, CycleIsAhead, NoNewer, Filled, Catalog, Version, Cycle
    <2> QED  BY <1>0, <2>2, <2>3, <2>4 DEF ReloadInv, OneCycle, RoomsAreBehind
  <1>2. CASE BootEdo \/ BootYgo \/ Baseline
    BY <1>0, <1>2, BootKeeps
  <1>3. ASSUME NEW t \in Ticks,
               TickStarts(t) \/ Compare(t) \/ LoadEdo(t) \/ LoadYgo(t) \/ RebuildFails(t)
        PROVE  ReloadInv'
    BY <1>0, <1>3, TickKeeps
  <1>4. ASSUME NEW t \in Ticks, Swap(t) PROVE ReloadInv'
    BY <1>0, <1>4, SwapKeeps
  <1>5. ASSUME NEW r \in BanRooms, OpenBanRoom(r) \/ SettleBanRoom(r) PROVE ReloadInv'
    BY <1>0, <1>5, RoomKeeps
  <1>6. CASE UNCHANGED reloadVars
    BY <1>0, <1>6 DEF reloadVars, ReloadInv, ListsAreRead, OneCycle, CycleIsAhead, RoomsAreBehind
  <1> QED  BY <1>1, <1>2, <1>3, <1>4, <1>5, <1>6 DEF ReloadNext

(* No step puts an older list back.                                             *)
LEMMA NoStepGoesBack ==
  ReloadInv /\ [ReloadNext]_reloadVars =>
    [edoLists' >= edoLists /\ \A part \in DOMAIN ygoLists : ygoLists'[part] >= ygoLists[part]]_reloadVars
  <1> SUFFICES ASSUME ReloadInv, ReloadInv', ReloadNext
               PROVE  edoLists' >= edoLists /\ \A part \in DOMAIN ygoLists : ygoLists'[part] >= ygoLists[part]
    BY ReloadStepInv
  <1>1. /\ edoLists \in Nat /\ edoLists' \in Nat /\ ygoLists \in Catalog /\ ygoLists' \in Catalog
        /\ DOMAIN ygoLists = {"formats", "base"}
    BY DEF ReloadInv, ReloadTypeOK, Catalog
  <1>2. edoLists <= edoLists' /\ NoNewer(ygoLists, ygoLists')
    <2>1. ASSUME NEW t \in Ticks, Swap(t) PROVE edoLists <= edoLists' /\ NoNewer(ygoLists, ygoLists')
      BY <2>1, SwapAdvances
    <2>2. CASE BootEdo \/ BootYgo
      BY <1>1, <2>2 DEF BootEdo, BootYgo, ReloadInv, ListsAreRead, NoNewer, Nothing, Catalog
    <2>3. CASE edoLists' = edoLists /\ ygoLists' = ygoLists
      BY <1>1, <2>3 DEF NoNewer, Catalog
    <2> QED
      BY <2>1, <2>2, <2>3 DEF ReloadNext, Publish, Baseline, TickStarts, Compare, LoadEdo, LoadYgo, RebuildFails,
         OpenBanRoom, SettleBanRoom
  <1> QED  BY <1>1, <1>2, PartsOrder

(* A catalog is never empty once boot has loaded it, no cycle puts an older list*)
(* back over a newer one, and a match is credited to no list only when a newer  *)
(* one replaced its own: bootstrapBanListReloader's guard, swap and failures.   *)
THEOREM ReloadKeepsLists == ReloadSpec => ListsNeverLost
  <1>1. ReloadInv => NeverEmpty
    BY DEF ReloadInv, ReloadTypeOK, ListsAreRead, NeverEmpty, Filled
  <1>2. ReloadInv => LostOnlyByReload
    BY DEF ReloadInv, RoomsAreBehind, LostOnlyByReload
  <1> QED
    BY ReloadInitInv, ReloadStepInv, NoStepGoesBack, <1>1, <1>2, PTL
       DEF ReloadSpec, ListsNeverLost, ListsNeverGoBack

--------------------------------------------------------------------------------
(* The cards in memory never go back, for any pools, askers, overlapping runs   *)
(* and failures.  Of the jobs at the lock only the holder has read, after the   *)
(* storage it will replace was; a load is for a pool that has no storage and    *)
(* the only one of its promise, a run's job for a pool that has.                *)

Due(job, memory, promises) ==
  IF job.run = 0 THEN memory[job.pool] = 0 /\ job.pool \in promises ELSE memory[job.pool] > 0

QueueSound(jobs, memory, files, promises) ==
  /\ \A i \in 1 .. Len(jobs) :
       /\ i # 1 => jobs[i].read = 0
       /\ jobs[i].read > 0 => memory[jobs[i].pool] <= jobs[i].read /\ jobs[i].read <= files[jobs[i].pool]
       /\ Due(jobs[i], memory, promises)
  /\ \A i, j \in 1 .. Len(jobs) : jobs[i].run = 0 /\ jobs[j].run = 0 /\ jobs[i].pool = jobs[j].pool => i = j
  /\ \A p \in promises : \E i \in 1 .. Len(jobs) : jobs[i].run = 0 /\ jobs[i].pool = p

CardInv ==
  /\ CardTypeOK /\ QueueSound(lockQueue, storage, published, loading)
  /\ \A p \in Pools : storage[p] <= published[p]
  /\ \A p \in BootPools : storage[p] > 0

(* A job that joins the queue.                                                  *)
LEMMA JobJoins ==
  ASSUME NEW jobs \in Seq(Jobs), NEW job \in Jobs, NEW memory, NEW files, NEW before, NEW promises,
         QueueSound(jobs, memory, files, before), job.read = 0, Due(job, memory, promises),
         promises = IF job.run = 0 THEN before \cup {job.pool} ELSE before,
         job.run = 0 => job.pool \notin before
  PROVE  QueueSound(Append(jobs, job), memory, files, promises) /\ Append(jobs, job) \in Seq(Jobs)
  <1> DEFINE longer == Append(jobs, job)
             n == Len(jobs)
  <1>1. /\ longer \in Seq(Jobs) /\ n \in Nat /\ Len(longer) = n + 1
        /\ \A i \in 1 .. n : longer[i] = jobs[i]
        /\ longer[n + 1] = job
    BY AppendProperties, LenProperties
  <1> HIDE DEF longer, n
  <1>2. \A i \in 1 .. n + 1 : i \in 1 .. n \/ i = n + 1
    BY <1>1
  <1>3. before \subseteq promises
    OBVIOUS
  <1>4. \A i \in 1 .. n :
          /\ i # 1 => jobs[i].read = 0
          /\ jobs[i].read > 0 => memory[jobs[i].pool] <= jobs[i].read /\ jobs[i].read <= files[jobs[i].pool]
          /\ Due(jobs[i], memory, promises) /\ (jobs[i].run = 0 => jobs[i].pool \in before)
    BY <1>3 DEF QueueSound, Due, n
  <1>5. \A i \in 1 .. n + 1 :
          /\ i # 1 => longer[i].read = 0
          /\ longer[i].read > 0 => memory[longer[i].pool] <= longer[i].read /\ longer[i].read <= files[longer[i].pool]
          /\ Due(longer[i], memory, promises)
    <2> TAKE i \in 1 .. n + 1
    <2>1. CASE i \in 1 .. n
      BY <1>1, <1>4, <2>1
    <2>2. CASE i = n + 1
      <3>1. longer[i] = job /\ ~(job.read > 0)
        BY <1>1, <2>2
      <3> QED BY <3>1
    <2> QED BY <1>2, <2>1, <2>2
  <1>6. \A i, j \in 1 .. n + 1 : longer[i].run = 0 /\ longer[j].run = 0 /\ longer[i].pool = longer[j].pool => i = j
    <2>1. \A i, j \in 1 .. n : jobs[i].run = 0 /\ jobs[j].run = 0 /\ jobs[i].pool = jobs[j].pool => i = j
      BY DEF QueueSound, n
    <2>2. \A i \in 1 .. n : jobs[i].run = 0 /\ job.run = 0 => jobs[i].pool # job.pool
      BY <1>4
    <2> QED BY <1>1, <1>2, <2>1, <2>2
  <1>7. \A p \in promises : \E i \in 1 .. n + 1 : longer[i].run = 0 /\ longer[i].pool = p
    <2> TAKE p \in promises
    <2>1. CASE p \in before
      <3>1. PICK i \in 1 .. n : jobs[i].run = 0 /\ jobs[i].pool = p
        BY <2>1 DEF QueueSound, n
      <3>2. i \in 1 .. n + 1 /\ longer[i] = jobs[i]
        BY <1>1
      <3> QED BY <3>1, <3>2
    <2>2. CASE p \notin before
      <3>1. job.run = 0 /\ job.pool = p
        BY <2>2
      <3>2. n + 1 \in 1 .. n + 1
        BY <1>1
      <3> QED BY <1>1, <3>1, <3>2
    <2> QED BY <2>1, <2>2
  <1>8. QueueSound(longer, memory, files, promises)
    BY <1>1, <1>5, <1>6, <1>7, ZenonT(40) DEF QueueSound
  <1> QED BY <1>1, <1>8 DEF longer

(* The holder leaves the lock, with the storage replaced or not.                *)
LEMMA HolderLeaves ==
  ASSUME NEW jobs \in Seq(Jobs), jobs # <<>>, NEW files, NEW before, NEW promises,
         NEW memory \in [Pools -> Nat], NEW after \in [Pools -> Nat],
         QueueSound(jobs, memory, files, before),
         promises = IF jobs[1].run = 0 THEN before \ {jobs[1].pool} ELSE before,
         \A p \in Pools : p # jobs[1].pool => after[p] = memory[p],
         after[jobs[1].pool] = memory[jobs[1].pool] \/ (jobs[1].read > 0 /\ after[jobs[1].pool] = jobs[1].read)
  PROVE  QueueSound(Tail(jobs), after, files, promises) /\ Tail(jobs) \in Seq(Jobs)
  <1> DEFINE rest == Tail(jobs)
             n == Len(jobs)
  <1>1. /\ rest \in Seq(Jobs) /\ n \in Nat /\ n > 0 /\ Len(rest) = n - 1
        /\ \A i \in 1 .. Len(rest) : rest[i] = jobs[i + 1]
    BY HeadTailProperties, LenProperties, EmptySeq
  <1>2. \A i \in 1 .. n : jobs[i] \in Jobs /\ jobs[i].pool \in Pools
    <2>1. \A i \in 1 .. n : jobs[i] \in Jobs
      BY ElementOfSeq
    <2> QED BY <2>1 DEF Jobs
  <1> HIDE DEF rest, n
  <1>3. \A i \in 1 .. n - 1 : i + 1 \in 1 .. n /\ i + 1 # 1
    BY <1>1
  <1>0. 1 \in 1 .. n
    BY <1>1
  <1>4. \A i \in 1 .. n : /\ i # 1 => jobs[i].read = 0
                          /\ Due(jobs[i], memory, before)
    BY DEF QueueSound, n
  <1>5. \A i \in 1 .. n : i # 1 => Due(jobs[i], after, promises)
    <2> SUFFICES ASSUME NEW i \in 1 .. n, i # 1 PROVE Due(jobs[i], after, promises)
      OBVIOUS
    <2> DEFINE p == jobs[i].pool
    <2>0. p \in Pools /\ Due(jobs[i], memory, before) /\ Due(jobs[1], memory, before)
      BY <1>0, <1>2, <1>4
    <2>1. CASE jobs[i].run = 0
      <3>1. memory[p] = 0 /\ p \in before
        BY <2>0, <2>1 DEF Due
      <3>2. p # jobs[1].pool
        <4>1. CASE jobs[1].run = 0
          BY <1>0, <2>1, <4>1 DEF QueueSound, n
        <4>2. CASE jobs[1].run # 0
          <5>1. memory[jobs[1].pool] > 0
            BY <2>0, <4>2 DEF Due
          <5> QED BY <3>1, <5>1
        <4> QED BY <4>1, <4>2
      <3>3. after[p] = 0 /\ p \in promises
        BY <2>0, <3>1, <3>2
      <3> QED BY <2>1, <3>3 DEF Due
    <2>2. CASE jobs[i].run # 0
      <3>1. memory[p] > 0
        BY <2>0, <2>2 DEF Due
      <3>2. after[p] > 0
        BY <2>0, <3>1
      <3> QED BY <2>2, <3>2 DEF Due
    <2> QED BY <2>1, <2>2
  <1>6. \A i \in 1 .. n - 1 : /\ rest[i].read = 0
                              /\ Due(rest[i], after, promises)
    BY <1>1, <1>3, <1>4, <1>5, ZenonT(40)
  <1>7. \A i, j \in 1 .. n - 1 : rest[i].run = 0 /\ rest[j].run = 0 /\ rest[i].pool = rest[j].pool => i = j
    <2>1. \A i, j \in 1 .. n : jobs[i].run = 0 /\ jobs[j].run = 0 /\ jobs[i].pool = jobs[j].pool => i = j
      BY DEF QueueSound, n
    <2> TAKE i, j \in 1 .. n - 1
    <2>2. rest[i] = jobs[i + 1] /\ rest[j] = jobs[j + 1] /\ i + 1 \in 1 .. n /\ j + 1 \in 1 .. n
      BY <1>1, <1>3
    <2> HAVE rest[i].run = 0 /\ rest[j].run = 0 /\ rest[i].pool = rest[j].pool
    <2>3. i + 1 = j + 1
      BY <2>1, <2>2
    <2> QED BY <1>1, <2>3
  <1>8. \A p \in promises : \E i \in 1 .. n - 1 : rest[i].run = 0 /\ rest[i].pool = p
    <2> TAKE p \in promises
    <2>1. PICK i \in 1 .. n : jobs[i].run = 0 /\ jobs[i].pool = p
      BY DEF QueueSound, n
    <2>2. i # 1
      BY <2>1
    <2>3. i - 1 \in 1 .. n - 1 /\ rest[i - 1] = jobs[i]
      <3>1. i - 1 \in 1 .. n - 1 /\ (i - 1) + 1 = i
        BY <1>1, <2>2
      <3> QED BY <1>1, <3>1
    <2> QED BY <2>1, <2>3
  <1>9. QueueSound(rest, after, files, promises)
    <2>1. \A i \in 1 .. Len(rest) : ~(rest[i].read > 0)
      BY <1>1, <1>6, SMTT(40)
    <2> QED BY <1>1, <1>6, <1>7, <1>8, <2>1 DEF QueueSound
  <1> QED BY <1>1, <1>9 DEF rest

(* The holder reads its databases.                                              *)
LEMMA HolderReads ==
  ASSUME NEW jobs \in Seq(Jobs), jobs # <<>>, NEW memory \in [Pools -> Nat], NEW files \in [Pools -> 0 .. MaxCards], NEW promises,
         QueueSound(jobs, memory, files, promises), \A p \in Pools : memory[p] <= files[p]
  PROVE  /\ QueueSound([jobs EXCEPT ![1].read = files[jobs[1].pool]], memory, files, promises)
         /\ [jobs EXCEPT ![1].read = files[jobs[1].pool]] \in Seq(Jobs)
  <1> DEFINE job == [jobs[1] EXCEPT !.read = files[jobs[1].pool]]
             next == [jobs EXCEPT ![1] = job]
             n == Len(jobs)
  <1>1. /\ n \in Nat /\ 1 \in 1 .. n /\ \A i \in 1 .. n : jobs[i] \in Jobs
    BY LenProperties, EmptySeq, ElementOfSeq
  <1>2. /\ job \in Jobs /\ job.pool = jobs[1].pool /\ job.run = jobs[1].run /\ job.read = files[job.pool] /\ job.pool \in Pools
    BY <1>1 DEF Jobs
  <1>3. [jobs EXCEPT ![1].read = files[jobs[1].pool]] = next
    OBVIOUS
  <1> HIDE DEF job
  <1>4. /\ next \in Seq(Jobs) /\ Len(next) = n
        /\ next[1] = job /\ \A i \in 1 .. n : i # 1 => next[i] = jobs[i]
    BY <1>1, <1>2, LenProperties, ExceptSeq
  <1> HIDE DEF next, n
  <1>5. \A i \in 1 .. n : next[i].pool = jobs[i].pool /\ next[i].run = jobs[i].run
    BY <1>2, <1>4
  <1>6. \A i \in 1 .. n : /\ i # 1 => next[i].read = 0
                          /\ next[i].read > 0 => memory[next[i].pool] <= next[i].read /\ next[i].read <= files[next[i].pool]
                          /\ Due(next[i], memory, promises)
    <2> TAKE i \in 1 .. n
    <2>1. Due(next[i], memory, promises)
      BY <1>5 DEF QueueSound, Due, n
    <2>2. CASE i = 1
      <3>1. next[i].read = files[next[i].pool] /\ next[i].pool \in Pools
        BY <1>2, <1>4, <2>2
      <3>2. files[next[i].pool] \in Nat
        BY <3>1, CardBounds
      <3> QED BY <2>1, <2>2, <3>1, <3>2
    <2>3. CASE i # 1
      <3>1. next[i] = jobs[i] /\ jobs[i].read = 0
        BY <1>4, <2>3 DEF QueueSound, n
      <3>2. ~(next[i].read > 0)
        BY <3>1
      <3> QED BY <2>1, <3>1, <3>2
    <2> QED BY <2>2, <2>3
  <1>7. QueueSound(next, memory, files, promises)
    BY <1>4, <1>5, <1>6 DEF QueueSound, n
  <1> QED BY <1>3, <1>4, <1>7

(* A release that grows on disk.                                                *)
LEMMA DiskGrows ==
  ASSUME NEW jobs \in Seq(Jobs), NEW memory, NEW promises,
         NEW files \in [Pools -> Nat], NEW after \in [Pools -> Nat],
         QueueSound(jobs, memory, files, promises), \A p \in Pools : files[p] <= after[p]
  PROVE  QueueSound(jobs, memory, after, promises)
  <1> DEFINE n == Len(jobs)
  <1>1. n \in Nat /\ \A i \in 1 .. n : jobs[i] \in Jobs
    BY LenProperties, ElementOfSeq
  <1>2. \A i \in 1 .. n : jobs[i].pool \in Pools /\ jobs[i].read \in Nat
    BY <1>1, CardBounds, SMTT(40) DEF Jobs
  <1>3. \A i \in 1 .. n : jobs[i].read > 0 => jobs[i].read <= after[jobs[i].pool]
    <2> TAKE i \in 1 .. n
    <2> HAVE jobs[i].read > 0
    <2>1. jobs[i].read <= files[jobs[i].pool] /\ files[jobs[i].pool] <= after[jobs[i].pool]
      BY <1>2 DEF QueueSound
    <2>2. files[jobs[i].pool] \in Nat /\ after[jobs[i].pool] \in Nat /\ jobs[i].read \in Nat
      BY <1>2
    <2> QED BY <2>1, <2>2
  <1> QED BY <1>3 DEF QueueSound

(* A run asks for the lock with its next pool, or is done.                      *)
LEMMA RunAsks ==
  ASSUME CardTypeOK, \A p \in BootPools : storage[p] > 0,
         NEW r \in Runs, NEW pools \in SUBSET Pools, NEW jobs \in Seq(Jobs), NEW after, NEW files,
         QueueSound(jobs, after, files, loading), \A p \in Pools : storage[p] > 0 => after[p] > 0,
         Refresh(r, pools, jobs)
  PROVE  /\ QueueSound(lockQueue', after, files, loading) /\ lockQueue' \in Seq(Jobs)
         /\ timerRun' \in [Runs -> SUBSET Pools]
  <1> DEFINE booted == pools \cap BootPools
             rest == IF booted # {} THEN pools ELSE {p \in pools : storage[p] > 0}
  <1>1. /\ timerRun' = [timerRun EXCEPT ![r] = rest]
        /\ \/ lockQueue' = jobs
           \/ \E p \in IF booted # {} THEN booted ELSE rest : lockQueue' = Append(jobs, Job(p, r, storage[p]))
    BY DEF Refresh
  <1>2. rest \in SUBSET Pools /\ \A p \in IF booted # {} THEN booted ELSE rest : p \in Pools /\ storage[p] > 0
    BY DEF Pools
  <1>3. timerRun' \in [Runs -> SUBSET Pools]
    BY <1>1, <1>2 DEF CardTypeOK
  <1>4. CASE lockQueue' = jobs
    BY <1>3, <1>4
  <1>5. ASSUME NEW p \in (IF booted # {} THEN booted ELSE rest), lockQueue' = Append(jobs, Job(p, r, storage[p]))
        PROVE  QueueSound(lockQueue', after, files, loading) /\ lockQueue' \in Seq(Jobs)
    <2> DEFINE job == Job(p, r, storage[p])
    <2>1. p \in Pools /\ after[p] > 0 /\ r # 0 /\ storage[p] \in 0 .. MaxCards
      BY <1>2, CardBounds DEF CardTypeOK
    <2>2. job \in Jobs /\ job.read = 0 /\ job.run = r /\ job.pool = p
      BY <2>1, CardBounds DEF Job, Jobs
    <2>3. Due(job, after, loading)
      BY <2>1, <2>2 DEF Due
    <2> HIDE DEF job
    <2> QED BY <1>5, <2>1, <2>2, <2>3, JobJoins DEF job
  <1> QED BY <1>1, <1>3, <1>4, <1>5

LEMMA CardInitInv == CardInit => CardInv
  <1> SUFFICES ASSUME CardInit PROVE CardInv
    OBVIOUS
  <1> USE CardBounds DEF CardInit
  <1>1. CardTypeOK
    BY DEF CardTypeOK, Pools
  <1>2. lockQueue = << >> /\ Len(lockQueue) = 0 /\ 1 .. 0 = {}
    BY EmptySeq
  <1>3. QueueSound(lockQueue, storage, published, loading)
    BY <1>2 DEF QueueSound
  <1>4. \A p \in Pools : storage[p] <= published[p]
    OBVIOUS
  <1>5. \A p \in BootPools : storage[p] > 0
    BY DEF Pools
  <1> QED BY <1>1, <1>3, <1>4, <1>5 DEF CardInv

(* The holder of a sound queue.                                                 *)
LEMMA HolderIsSound ==
  ASSUME CardInv, lockQueue # << >>
  PROVE  /\ Holder = lockQueue[1] /\ Holder \in Jobs /\ Holder.pool \in Pools /\ Holder.read \in 0 .. MaxCards
         /\ Holder.read > 0 => storage[Holder.pool] <= Holder.read /\ Holder.read <= published[Holder.pool]
         /\ Due(Holder, storage, loading)
  <1>1. /\ lockQueue \in Seq(Jobs) /\ Len(lockQueue) \in Nat /\ 1 \in 1 .. Len(lockQueue)
        /\ lockQueue[1] \in Jobs /\ Holder = lockQueue[1]
    BY LenProperties, EmptySeq, ElementOfSeq, HeadTailProperties DEF CardInv, CardTypeOK, Holder
  <1>2. Holder.pool \in Pools /\ Holder.read \in 0 .. MaxCards
    BY <1>1 DEF Jobs
  <1>3. QueueSound(lockQueue, storage, published, loading)
    BY DEF CardInv
  <1> QED BY <1>1, <1>2, <1>3 DEF QueueSound

LEMMA CardStepInv ==
  ASSUME CardInv, [CardNext]_cardVars
  PROVE  CardInv' /\ \A p \in Pools : storage'[p] >= storage[p]
  <1>1. /\ published \in [Pools -> 1 .. MaxCards] /\ published \in [Pools -> Nat]
        /\ storage \in [Pools -> 0 .. MaxCards] /\ storage \in [Pools -> Nat]
        /\ loading \in SUBSET Pools /\ lockQueue \in Seq(Jobs)
        /\ timerRun \in [Runs -> SUBSET Pools] /\ crashes \in 0 .. MaxCrashes
        /\ QueueSound(lockQueue, storage, published, loading)
        /\ \A p \in Pools : storage[p] <= published[p]
        /\ \A p \in BootPools : storage[p] > 0
        /\ BootPools \subseteq Pools /\ MaxCards \in Nat /\ MaxCrashes \in Nat
    BY CardBounds DEF CardInv, CardTypeOK, Pools
  <1>2. ASSUME UNCHANGED <<published, storage>>, QueueSound(lockQueue', storage, published, loading'), lockQueue' \in Seq(Jobs),
               loading' \subseteq Pools, timerRun' \in [Runs -> SUBSET Pools], crashes' \in 0 .. MaxCrashes
        PROVE  CardInv' /\ \A p \in Pools : storage'[p] >= storage[p]
    <2>1. \A p \in Pools : storage'[p] >= storage[p]
      BY <1>1, <1>2
    <2>2. CardTypeOK'
      BY <1>1, <1>2 DEF CardTypeOK
    <2>3. QueueSound(lockQueue', storage', published', loading')
      BY <1>2
    <2>4. (\A p \in Pools : storage'[p] <= published'[p]) /\ \A p \in BootPools : storage'[p] > 0
      BY <1>1, <1>2
    <2> QED BY <2>1, <2>2, <2>3, <2>4 DEF CardInv
  <1>3. ASSUME lockQueue # << >>, Holder.read > 0, published' = published,
               storage' = storage \/ storage' = [storage EXCEPT ![Holder.pool] = Holder.read],
               Holder.run = 0 => storage' = [storage EXCEPT ![Holder.pool] = Holder.read]
        PROVE  /\ storage' \in [Pools -> 0 .. MaxCards] /\ \A p \in Pools : storage'[p] >= storage[p]
               /\ \A p \in Pools : storage'[p] <= published'[p]
               /\ \A p \in BootPools : storage'[p] > 0
               /\ \A p \in Pools : p # Holder.pool => storage'[p] = storage[p]
               /\ storage'[Holder.pool] = storage[Holder.pool] \/ storage'[Holder.pool] = Holder.read
    <2>1. /\ Holder.pool \in Pools /\ Holder.read \in 0 .. MaxCards
          /\ storage[Holder.pool] <= Holder.read /\ Holder.read <= published[Holder.pool]
      BY <1>3, HolderIsSound
    <2>2. storage' \in [Pools -> 0 .. MaxCards]
      BY <1>1, <1>3, <2>1
    <2>3. \A p \in Pools : storage'[p] >= storage[p] /\ storage'[p] <= published[p]
      BY <1>1, <1>3, <2>1
    <2>4. \A p \in BootPools : storage'[p] > 0
      BY <1>1, <2>2, <2>3
    <2> QED BY <1>1, <1>3, <2>1, <2>2, <2>3, <2>4
  <1>4. ASSUME NEW p \in Pools, PublishCards(p) PROVE CardInv' /\ \A q \in Pools : storage'[q] >= storage[q]
    <2>1. /\ published' \in [Pools -> 1 .. MaxCards] /\ \A q \in Pools : published[q] <= published'[q]
          /\ UNCHANGED <<storage, loading, lockQueue, timerRun, crashes>>
      BY <1>1, <1>4 DEF PublishCards
    <2>0. published' \in [Pools -> Nat]
      BY <1>1, <2>1
    <2>2. QueueSound(lockQueue, storage, published', loading)
      BY <1>1, <2>0, <2>1, DiskGrows
    <2>3. CardTypeOK'
      BY <1>1, <2>1 DEF CardTypeOK
    <2>4. \A q \in Pools : storage'[q] <= published'[q] /\ storage'[q] >= storage[q]
      <3> TAKE q \in Pools
      <3>1. storage[q] <= published[q] /\ published[q] <= published'[q] /\ storage[q] \in Nat /\ published[q] \in Nat /\ published'[q] \in Nat
        BY <1>1, <2>1
      <3> QED BY <2>1, <3>1
    <2>5. \A q \in BootPools : storage'[q] > 0
      BY <1>1, <2>1
    <2>6. QueueSound(lockQueue', storage', published', loading')
      BY <2>1, <2>2
    <2> QED BY <2>3, <2>4, <2>5, <2>6 DEF CardInv
  <1>5. ASSUME NEW a \in Askers, NEW p \in Pools, AskForPool(a, p) PROVE CardInv' /\ \A q \in Pools : storage'[q] >= storage[q]
    <2>1. UNCHANGED <<published, storage, timerRun, crashes>>
      BY <1>5 DEF AskForPool
    <2>2. CASE UNCHANGED <<loading, lockQueue>>
      BY <1>1, <1>2, <2>1, <2>2
    <2>3. CASE storage[p] = 0 /\ loading' = loading \cup {p} /\ lockQueue' = IF p \in loading THEN lockQueue ELSE Append(lockQueue, Job(p, 0, 0))
      <3>1. CASE p \in loading
        <4>1. UNCHANGED <<loading, lockQueue>>
          BY <2>3, <3>1
        <4> QED BY <2>2, <4>1
      <3>2. CASE p \notin loading
        <4> DEFINE job == Job(p, 0, 0)
        <4>1. job \in Jobs /\ job.read = 0 /\ job.run = 0 /\ job.pool = p
          BY <1>1 DEF Job, Jobs
        <4>2. Due(job, storage, loading')
          BY <2>3, <4>1 DEF Due
        <4>3. lockQueue' = Append(lockQueue, job) /\ loading' = loading \cup {p} /\ loading' \in SUBSET Pools
          BY <1>1, <2>3, <3>2
        <4> HIDE DEF job
        <4>4. QueueSound(lockQueue', storage, published, loading') /\ lockQueue' \in Seq(Jobs)
          BY <1>1, <3>2, <4>1, <4>2, <4>3, JobJoins
        <4> QED BY <1>1, <1>2, <2>1, <4>3, <4>4
      <3> QED BY <3>1, <3>2
    <2>4. storage[p] = 0 \/ storage[p] > 0
      BY <1>1
    <2> QED BY <1>5, <2>2, <2>3, <2>4 DEF AskForPool
  <1>6. ASSUME WorkerReads PROVE CardInv' /\ \A q \in Pools : storage'[q] >= storage[q]
    <2>1. /\ lockQueue # << >> /\ lockQueue' = [lockQueue EXCEPT ![1].read = published[Holder.pool]]
          /\ UNCHANGED <<published, storage, loading, asker, timerRun, crashes>>
      BY <1>6 DEF WorkerReads
    <2>2. lockQueue' = [lockQueue EXCEPT ![1].read = published[lockQueue[1].pool]]
      BY <2>1, HolderIsSound
    <2>3. published \in [Pools -> 0 .. MaxCards]
      BY <1>1
    <2>4. /\ QueueSound([lockQueue EXCEPT ![1].read = published[lockQueue[1].pool]], storage, published, loading)
          /\ [lockQueue EXCEPT ![1].read = published[lockQueue[1].pool]] \in Seq(Jobs)
      BY <1>1, <2>1, <2>3, HolderReads
    <2>5. QueueSound(lockQueue', storage, published, loading') /\ lockQueue' \in Seq(Jobs)
      BY <2>1, <2>2, <2>4
    <2> QED BY <1>1, <1>2, <2>1, <2>5
  <1>7. ASSUME LoadEnds PROVE CardInv' /\ \A q \in Pools : storage'[q] >= storage[q]
    <2>1. /\ lockQueue # << >> /\ Holder.read > 0 /\ Holder.run = 0 /\ published' = published
          /\ storage' = [storage EXCEPT ![Holder.pool] = Holder.read]
          /\ loading' = loading \ {Holder.pool} /\ lockQueue' = Tail(lockQueue)
          /\ UNCHANGED <<published, timerRun, crashes>>
      BY <1>7 DEF LoadEnds
    <2>2. /\ storage' \in [Pools -> 0 .. MaxCards] /\ storage' \in [Pools -> Nat] /\ \A p \in Pools : storage'[p] >= storage[p]
          /\ \A p \in Pools : storage'[p] <= published'[p]
          /\ \A p \in BootPools : storage'[p] > 0
          /\ \A p \in Pools : p # Holder.pool => storage'[p] = storage[p]
          /\ storage'[Holder.pool] = storage[Holder.pool] \/ storage'[Holder.pool] = Holder.read
      BY <1>1, <1>3, <2>1
    <2>3. Holder = lockQueue[1]
      BY <2>1, HolderIsSound
    <2>4. QueueSound(lockQueue', storage', published, loading') /\ lockQueue' \in Seq(Jobs)
      BY <1>1, <2>1, <2>2, <2>3, HolderLeaves
    <2>5. CardTypeOK'
      BY <1>1, <2>1, <2>2, <2>4 DEF CardTypeOK
    <2>6. QueueSound(lockQueue', storage', published', loading')
      BY <2>1, <2>4
    <2> QED BY <2>2, <2>5, <2>6 DEF CardInv
  <1>8. ASSUME RefreshEnds PROVE CardInv' /\ \A q \in Pools : storage'[q] >= storage[q]
    <2> DEFINE pools == timerRun[Holder.run] \ {Holder.pool}
    <2>1. /\ lockQueue # << >> /\ Holder.read > 0 /\ Holder.run # 0 /\ published' = published
          /\ storage' = storage \/ storage' = [storage EXCEPT ![Holder.pool] = Holder.read]
          /\ Refresh(Holder.run, pools, Tail(lockQueue))
          /\ UNCHANGED <<published, loading, asker, crashes>>
      BY <1>8 DEF RefreshEnds
    <2>2. /\ storage' \in [Pools -> 0 .. MaxCards] /\ storage' \in [Pools -> Nat] /\ \A p \in Pools : storage'[p] >= storage[p]
          /\ \A p \in Pools : storage'[p] <= published'[p]
          /\ \A p \in BootPools : storage'[p] > 0
          /\ \A p \in Pools : p # Holder.pool => storage'[p] = storage[p]
          /\ storage'[Holder.pool] = storage[Holder.pool] \/ storage'[Holder.pool] = Holder.read
      BY <1>1, <1>3, <2>1
    <2>3. Holder = lockQueue[1] /\ Holder.run \in Runs
      <3>1. Holder = lockQueue[1] /\ Holder \in Jobs
        BY <2>1, HolderIsSound
      <3> QED BY <2>1, <3>1 DEF Jobs
    <2>4. QueueSound(Tail(lockQueue), storage', published, loading) /\ Tail(lockQueue) \in Seq(Jobs)
      BY <1>1, <2>1, <2>2, <2>3, HolderLeaves
    <2>5. pools \in SUBSET Pools
      BY <1>1, <2>3
    <2>6. \A p \in Pools : storage[p] > 0 => storage'[p] > 0
      BY <1>1, <2>2
    <2>7. CardTypeOK
      BY DEF CardInv
    <2> HIDE DEF pools
    <2>8. QueueSound(lockQueue', storage', published, loading) /\ lockQueue' \in Seq(Jobs) /\ timerRun' \in [Runs -> SUBSET Pools]
      BY <1>1, <2>1, <2>3, <2>4, <2>5, <2>6, <2>7, RunAsks
    <2>9. CardTypeOK' /\ QueueSound(lockQueue', storage', published', loading')
      BY <1>1, <2>1, <2>2, <2>8 DEF CardTypeOK
    <2> QED BY <2>2, <2>9 DEF CardInv
  <1>9. ASSUME WorkerFails PROVE CardInv' /\ \A q \in Pools : storage'[q] >= storage[q]
    <2>1. /\ lockQueue # << >> /\ crashes' \in 0 .. MaxCrashes /\ lockQueue' = Tail(lockQueue)
          /\ UNCHANGED <<published, storage>>
          /\ loading' = IF Holder.run = 0 THEN loading \ {Holder.pool} ELSE loading
          /\ timerRun' = IF Holder.run = 0 THEN timerRun ELSE [timerRun EXCEPT ![Holder.run] = {}]
      BY <1>1, <1>9 DEF WorkerFails
    <2>2. Holder = lockQueue[1]
      BY <2>1, HolderIsSound
    <2>3. QueueSound(lockQueue', storage, published, loading') /\ lockQueue' \in Seq(Jobs)
      BY <1>1, <2>1, <2>2, HolderLeaves
    <2>4. loading' \subseteq Pools /\ timerRun' \in [Runs -> SUBSET Pools]
      BY <1>1, <2>1
    <2> QED BY <1>2, <2>1, <2>3, <2>4
  <1>10. ASSUME NEW r \in Runs, TimerFires(r) PROVE CardInv' /\ \A q \in Pools : storage'[q] >= storage[q]
    <2>1. Refresh(r, Pools, lockQueue) /\ UNCHANGED <<published, storage, loading, asker, crashes>>
      BY <1>10 DEF TimerFires
    <2>2. CardTypeOK /\ Pools \in SUBSET Pools /\ \A p \in Pools : storage[p] > 0 => storage[p] > 0
      BY DEF CardInv
    <2>3. QueueSound(lockQueue', storage, published, loading) /\ lockQueue' \in Seq(Jobs) /\ timerRun' \in [Runs -> SUBSET Pools]
      BY <1>1, <2>1, <2>2, RunAsks
    <2> QED BY <1>1, <1>2, <2>1, <2>3
  <1>11. ASSUME UNCHANGED <<published, storage, loading, lockQueue, timerRun, crashes>>
         PROVE  CardInv' /\ \A q \in Pools : storage'[q] >= storage[q]
    BY <1>1, <1>2, <1>11
  <1>12. CASE UNCHANGED cardVars
    BY <1>11, <1>12 DEF cardVars
  <1>13. ASSUME NEW a \in Askers, Forget(a) PROVE CardInv' /\ \A q \in Pools : storage'[q] >= storage[q]
    BY <1>11, <1>13 DEF Forget
  <1> QED BY <1>4, <1>5, <1>6, <1>7, <1>8, <1>9, <1>10, <1>12, <1>13 DEF CardNext

(* A promise in flight has one load at the lock, and a load has its promise.    *)
LEMMA OneLoadOfAPromise == CardInv => PromiseHasItsLoad
  <1> SUFFICES ASSUME CardInv, NEW p \in Pools
               PROVE  Cardinality({i \in DOMAIN lockQueue : lockQueue[i].pool = p /\ lockQueue[i].run = 0})
                        = IF p \in loading THEN 1 ELSE 0
    BY DEF PromiseHasItsLoad
  <1> DEFINE loads == {i \in DOMAIN lockQueue : lockQueue[i].pool = p /\ lockQueue[i].run = 0}
  <1>1. lockQueue \in Seq(Jobs) /\ DOMAIN lockQueue = 1 .. Len(lockQueue) /\ QueueSound(lockQueue, storage, published, loading)
    BY LenProperties DEF CardInv, CardTypeOK
  <1>2. CASE p \in loading
    <2>1. PICK i \in 1 .. Len(lockQueue) : lockQueue[i].run = 0 /\ lockQueue[i].pool = p
      BY <1>1, <1>2 DEF QueueSound
    <2>2. loads = {i}
      BY <1>1, <2>1 DEF QueueSound
    <2>3. Cardinality(loads) = 1
      BY <2>2, FS_Singleton
    <2> QED BY <1>2, <2>3
  <1>3. CASE p \notin loading
    <2>1. loads = {}
      BY <1>1, <1>3 DEF QueueSound, Due
    <2> QED BY <1>3, <2>1, FS_EmptySet
  <1> QED BY <1>2, <1>3

(* No pool's cards are replaced by an older reading, with loads and runs of     *)
(* different moments at the lock, and no asker waits for a read that no one     *)
(* makes: loadingLock, its queue and what a run captured before it.             *)
THEOREM CardsNeverGoBackProved ==
  CardInit /\ [][CardNext]_cardVars => CardsNeverGoBack /\ []PromiseHasItsLoad
  <1>1. CardInv /\ [CardNext]_cardVars => [\A p \in Pools : storage'[p] >= storage[p]]_cardVars
    BY CardStepInv
  <1> QED
    BY CardInitInv, CardStepInv, OneLoadOfAPromise, <1>1, PTL DEF CardsNeverGoBack
================================================================================
