------------------------------- MODULE DeckCheck -------------------------------
(* The deck of one seat through a match: what a client sends is built into a    *)
(* deck, judged by the room's ban list and rules, and may be changed between    *)
(* two duels.  YGOPro rooms (src/src/ygopro/deck, and the states that call it)  *)
(* judge with a validator made when the room enters a state; EDOPro rooms       *)
(* (src/src/edopro/deck) with the list found when the deck is built.  Either    *)
(* looks the list up by its hash, which a reload of the lists may lose.         *)
(* Decks are counts of codes.  A handler of the validators' chain is a conjunct *)
(* here: which complaint comes first is left out.                               *)
EXTENDS Integers, FiniteSets, FiniteSetsExt

CONSTANTS
  DeckCodes,        \* card codes a client may send
  CardOf,       \* the codes that exist -> [alias, types, scope]: 0 or a code, and sets of bits
  DeckRooms,    \* the cases: [engine, file, rule, sizes, points, ritual, check, lock, required, bot]
  DecksSent,    \* the decks clients send: [main, side], counts
  NoDeck

VARIABLES
  deckRoom,     \* the case
  deckPhase,    \* waiting, dueling, siding
  listed,       \* the room's hash still finds its list
  judge,        \* the list the state's validator was made with
  deck,         \* the seat's deck: [main, extra, side]
  deckReady,
  firstDeck,    \* history: the deck of the first duel
  lastSent,     \* history: what the client sent for `deck`
  judgedBy      \* history: the list `deck` was admitted by while waiting

deckVars == <<deckRoom, deckPhase, listed, judge, deck, deckReady, firstDeck, lastSent, judgedBy>>

--------------------------------------------------------------------------------
(* Ban lists.  A file has lines [code, limit, points], points 0 for none.       *)
WithLimit(file, limits) == {l.code : l \in {m \in file.lines : m.limit \in limits}}
PointsOf(lines) == [c \in {l.code : l \in {m \in lines : m.points > 0}} |-> (CHOOSE l \in lines : l.code = c /\ l.points > 0).points]

EmptyList == [forbidden |-> {}, limited |-> {}, semiLimited |-> {}, all |-> {}, whitelist |-> FALSE, genesys |-> FALSE,
              points |-> PointsOf({}), credits |-> {}]

(* EdoProBanListLoader.load: limits over three are dropped.                     *)
EdoList(file) ==
  [forbidden |-> WithLimit(file, {0}), limited |-> WithLimit(file, {1}), semiLimited |-> WithLimit(file, {2}),
   all |-> WithLimit(file, {3}), whitelist |-> file.whitelist, genesys |-> file.genesys,
   points |-> PointsOf(file.lines), credits |-> {}]

(* YGOProBanListLoader: the library reads limits under three, the text is read  *)
(* again for the others of a whitelist or of Genesys.                           *)
YgoList(file) ==
  LET rest == {l \in file.lines : l.limit >= 3 /\ (file.whitelist \/ file.genesys)}
  IN [forbidden |-> WithLimit(file, {0}), limited |-> WithLimit(file, {1}), semiLimited |-> WithLimit(file, {2}),
      all |-> {l.code : l \in rest}, whitelist |-> file.whitelist, genesys |-> file.genesys,
      points |-> PointsOf(rest), credits |-> file.credits]

DeckList(r) == IF r.engine = "ygopro" THEN YgoList(r.file) ELSE EdoList(r.file)

(* findByHash, or an empty list.                                                *)
FoundList == IF listed THEN DeckList(deckRoom) ELSE EmptyList

--------------------------------------------------------------------------------
(* Building.                                                                    *)
Known == DOMAIN CardOf
Alias(c) == CardOf[c].alias
CardCount(counts) == MapThenSumSet(LAMBDA c : counts[c], DOMAIN counts)
AllCards(d) == [c \in DeckCodes |-> d.main[c] + d.extra[c] + d.side[c]]

\* TYPES_EXTRA_DECK, and in EDOPro rituals where the duel's flags say so.
IsExtra(r, c) ==
  "extra" \in CardOf[c].types \/ "link" \in CardOf[c].types \/ (r.ritual /\ "ritual" \in CardOf[c].types)

Build(r, sent) ==
  [main  |-> [c \in DeckCodes |-> IF c \in Known /\ ~IsExtra(r, c) THEN sent.main[c] ELSE 0],
   extra |-> [c \in DeckCodes |-> IF c \in Known /\ IsExtra(r, c) THEN sent.main[c] ELSE 0],
   side  |-> [c \in DeckCodes |-> IF c \in Known THEN sent.side[c] ELSE 0]]

\* YGOPro refuses an unknown code, EDOPro leaves it out.
Buildable(r, sent) == r.engine = "ygopro" => \A c \in DeckCodes \ Known : sent.main[c] + sent.side[c] = 0

--------------------------------------------------------------------------------
(* The validators.                                                              *)
WithinSizes(r, d) ==
  /\ CardCount(d.main) \in r.sizes.main /\ CardCount(d.side) \in r.sizes.side /\ CardCount(d.extra) \in r.sizes.extra

(* Mutant of CopiesOf: alternate artworks count for themselves only.              *)
CopiesOf_ByCode(d, card) == AllCards(d)[card]

\* A card counts for its code and for its alias.
CopiesOf(d, card) ==
  MapThenSumSet(LAMBDA c : AllCards(d)[c], {c \in Known : c = card \/ Alias(c) = card})

Forbidden(d, list) == \A c \in list.forbidden : CopiesOf(d, c) = 0
SemiLimited(d, list) == \A c \in list.semiLimited : CopiesOf(d, c) <= 2
Limited(d, list) == \A c \in list.limited : CopiesOf(d, c) <= 1
NoLimited(d, list) == \A c \in list.all : CopiesOf(d, c) <= 3

\* Of the codes of the group themselves.
CreditLimit(d, list) ==
  \A limit \in list.credits : MapThenSumSet(LAMBDA c : AllCards(d)[c] * limit.cards[c], DOMAIN limit.cards) <= limit.cap

Held(d) == {c \in DeckCodes : AllCards(d)[c] > 0}

Available(d, list) ==
  LET available == list.limited \cup list.semiLimited \cup list.forbidden \cup list.all
  IN list.whitelist /\ available # {} => \A c \in Held(d) : {c, Alias(c)} \cap available # {}

MaxCopies(d) ==
  LET canonical(c) == IF Alias(c) # 0 THEN Alias(c) ELSE c
  IN \A c \in Known : MapThenSumSet(LAMBDA e : AllCards(d)[e], {e \in Known : canonical(e) = canonical(c)}) <= 3

GenesysRules(r, d, list) ==
  LET cost(c) == IF c \in DOMAIN list.points THEN list.points[c]
                 ELSE IF Alias(c) \in DOMAIN list.points THEN list.points[Alias(c)] ELSE 0
  IN /\ \A c \in Held(d) : CardOf[c].types \cap {"pendulum", "link"} = {} /\ CardOf[c].scope # {8}
     /\ MapThenSumSet(LAMBDA c : AllCards(d)[c] * cost(c), Known) <= r.points

(* CardAvailabilityValidationHandler: the bits of the room's rule; 4 is custom. *)
Required == <<{2}, {8}, {4}, {1, 2}, {}>>
RequiredBits(rule) == IF rule = 0 THEN {1} ELSE Required[rule]
InScope(r, d) ==
  RequiredBits(r.rule) # {} => \A c \in Held(d) : 4 \in CardOf[c].scope \/ RequiredBits(r.rule) \subseteq CardOf[c].scope

(* EDOPro's rule: OCG, TCG, both, prerelease (bit 256) or anything.             *)
DeckRule(r, d) ==
  /\ r.rule = 0 => \A c \in Held(d) : 1 \in CardOf[c].scope
  /\ r.rule = 1 => \A c \in Held(d) : 2 \in CardOf[c].scope
OfficialCard(r, d) ==
  /\ r.rule \in 0..2 => \A c \in Held(d) : CardOf[c].scope \subseteq {1, 2}
  /\ r.rule = 3 => \A c \in Held(d) : CardOf[c].scope \subseteq {1, 2, 256}
Prerelease(r, d) == r.rule = 3 => \A c \in Held(d) : CardOf[c].scope \cap {1, 2, 256} # {}

EdoValid(r, d, list) ==
  /\ WithinSizes(r, d) /\ DeckRule(r, d) /\ OfficialCard(r, d) /\ Prerelease(r, d)
  /\ IF list.genesys THEN MaxCopies(d) /\ GenesysRules(r, d, list)
     ELSE /\ Forbidden(d, list) /\ SemiLimited(d, list) /\ Limited(d, list)
          /\ NoLimited(d, list) /\ Available(d, list)

YgoValid(r, d, list) ==
  /\ WithinSizes(r, d)
  /\ IF list.genesys THEN MaxCopies(d) /\ GenesysRules(r, d, list)
     ELSE /\ Forbidden(d, list) /\ SemiLimited(d, list) /\ Limited(d, list) /\ CreditLimit(d, list)
          /\ InScope(r, d) /\ NoLimited(d, list) /\ Available(d, list)

--------------------------------------------------------------------------------
sameMultiset(a, b) == CardCount(a) = CardCount(b) /\ \A c \in DeckCodes : a[c] > 0 => a[c] = b[c]

deckHonoursLock(lock, required, d) ==
  IF lock = "registered" THEN sameMultiset(AllCards(required), AllCards(d))
  ELSE /\ sameMultiset(required.main, d.main) /\ sameMultiset(required.extra, d.extra) /\ sameMultiset(required.side, d.side)

\* acceptsDeck: only seats of a reservation that requires one are locked.
AcceptsDeck(r, d) == r.required # NoDeck => deckHonoursLock(r.lock, r.required, d)
Reserved(r) == r.lock # "none"

\* shouldValidateDeck; EDOPro rooms check whatever their creator asked.
ShouldValidate(r) == r.engine = "edopro" \/ Reserved(r) \/ r.check

(* The list and the rules, of the state's validator or of the list found now.   *)
Validated(d) ==
  IF deckRoom.engine = "ygopro" THEN ShouldValidate(deckRoom) => YgoValid(deckRoom, d, judge)
  ELSE EdoValid(deckRoom, d, FoundList)

Judged(d) == Validated(d) /\ AcceptsDeck(deckRoom, d)

--------------------------------------------------------------------------------
DecksInit ==
  /\ deckRoom \in DeckRooms /\ deckPhase = "waiting" /\ listed = TRUE /\ judge = DeckList(deckRoom)
  /\ deck = NoDeck /\ deckReady = FALSE /\ firstDeck = NoDeck /\ lastSent = NoDeck /\ judgedBy = EmptyList

Set(sent) == deck' = Build(deckRoom, sent) /\ lastSent' = sent
KeepsReadyDeck == deckRoom.lock = "exact" /\ deckReady

(* UPDATE_DECK while waiting.  A bot's deck is not judged; under an exact lock  *)
(* a ready seat keeps its deck.  A YGOPro seat is ready with its deck.          *)
SubmitDeck(sent) ==
  /\ deckPhase = "waiting" /\ Buildable(deckRoom, sent)
  /\ deckRoom.bot \/ (Judged(Build(deckRoom, sent)) /\ ~KeepsReadyDeck)
  /\ Set(sent) /\ deckReady' = (deckReady \/ deckRoom.engine = "ygopro")
  /\ judgedBy' = (IF deckRoom.engine = "ygopro" THEN judge ELSE FoundList)
  /\ UNCHANGED <<deckRoom, deckPhase, listed, judge, firstDeck>>

(* A deck that is refused takes the READY back, where the lock does not keep it.*)
RefuseDeck(sent) ==
  /\ deckPhase = "waiting" /\ deckReady /\ deckReady' = FALSE
  /\ \/ ~Buildable(deckRoom, sent)
     \/ ~deckRoom.bot /\ ~Validated(Build(deckRoom, sent))
     \/ ~deckRoom.bot /\ ~AcceptsDeck(deckRoom, Build(deckRoom, sent)) /\ ~KeepsReadyDeck
  /\ UNCHANGED <<deckRoom, deckPhase, listed, judge, deck, firstDeck, lastSent, judgedBy>>

(* READY, with the deck the seat has.                                           *)
ReadyDeck ==
  /\ deckPhase = "waiting" /\ deck # NoDeck /\ ~deckReady /\ deckReady' = TRUE
  /\ UNCHANGED <<deckRoom, deckPhase, listed, judge, deck, firstDeck, lastSent, judgedBy>>

DuelStarts ==
  /\ deckPhase # "dueling" /\ deckReady /\ deckPhase' = "dueling"
  /\ firstDeck' = IF deckPhase = "waiting" THEN deck ELSE firstDeck
  /\ UNCHANGED <<deckRoom, listed, judge, deck, deckReady, lastSent, judgedBy>>

(* sideDecking(): a new state, a new validator.                                 *)
SideDecking ==
  /\ deckPhase = "dueling" /\ deckPhase' = "siding" /\ deckReady' = FALSE /\ judge' = FoundList
  /\ UNCHANGED <<deckRoom, listed, deck, firstDeck, lastSent, judgedBy>>

(* A YGOPro duel that breaks puts its room back to waiting.                     *)
DuelBreaks ==
  /\ deckPhase = "dueling" /\ deckRoom.engine = "ygopro"
  /\ deckPhase' = "waiting" /\ deckReady' = FALSE /\ judge' = FoundList /\ firstDeck' = NoDeck
  /\ UNCHANGED <<deckRoom, listed, deck, lastSent, judgedBy>>

SentCards(sent) == [c \in DeckCodes |-> sent.main[c] + sent.side[c]]

isSideDeckValid(d, sent) == AllCards(d) = SentCards(sent)

Accepts(sent) == isSideDeckValid(deck, sent) /\ Buildable(deckRoom, sent) /\ Judged(Build(deckRoom, sent))

(* UPDATE_DECK between two duels.                                               *)
SideDeck(sent) ==
  /\ deckPhase = "siding" /\ Accepts(sent) /\ Set(sent) /\ deckReady' = TRUE
  /\ UNCHANGED <<deckRoom, deckPhase, listed, judge, firstDeck, judgedBy>>

(* The right cards in a deck the room refuses take a YGOPro seat's READY back.  *)
RefuseSideDeck(sent) ==
  /\ deckPhase = "siding" /\ deckRoom.engine = "ygopro" /\ deckReady /\ isSideDeckValid(deck, sent)
  /\ ~(Buildable(deckRoom, sent) /\ Judged(Build(deckRoom, sent))) /\ deckReady' = FALSE
  /\ UNCHANGED <<deckRoom, deckPhase, listed, judge, deck, firstDeck, lastSent, judgedBy>>

(* A reload of the lists leaves none with the hash.                             *)
ListLost ==
  /\ listed /\ listed' = FALSE
  /\ UNCHANGED <<deckRoom, deckPhase, judge, deck, deckReady, firstDeck, lastSent, judgedBy>>

DecksNext ==
  \/ \E sent \in DecksSent : SubmitDeck(sent) \/ RefuseDeck(sent) \/ SideDeck(sent) \/ RefuseSideDeck(sent)
  \/ ReadyDeck \/ DuelStarts \/ SideDecking \/ DuelBreaks \/ ListLost

--------------------------------------------------------------------------------
(* What a legal deck is, card by card: an artwork is the card it shows.         *)
Identity(c) == IF Alias(c) # 0 THEN Alias(c) ELSE c
Owned(d, i) == MapThenSumSet(LAMBDA c : AllCards(d)[c], {c \in Known : Identity(c) = i})
Allowance(list, i) ==
  IF list.genesys THEN 3 ELSE IF i \in list.forbidden THEN 0 ELSE IF i \in list.limited THEN 1
  ELSE IF i \in list.semiLimited THEN 2 ELSE IF i \in list.all THEN 3 ELSE 99

(* Every deck a checked seat has, in every duel of the match, has the room's    *)
(* sizes, no more of any card than the room's list allows in all its artworks,  *)
(* and costs no more than the room's points.  A deck handed in once a reload    *)
(* has lost the room's list is judged by the empty one, which allows all: the   *)
(* room is not unaffected, as bootstrapBanListReloader.ts:15 says it is.        *)
DuelledDeckIsLegal ==
  deck # NoDeck /\ ShouldValidate(deckRoom) /\ ~deckRoom.bot =>
    /\ WithinSizes(deckRoom, deck)
    /\ judgedBy = DeckList(deckRoom) \/ (~listed /\ judgedBy = EmptyList)
    /\ \A i \in {Identity(c) : c \in Held(deck)} : Owned(deck, i) <= Allowance(judgedBy, i)
    /\ judgedBy.genesys => GenesysRules(deckRoom, deck, judgedBy)
    /\ judgedBy.credits # {} => CreditLimit(deck, judgedBy)

(* A match is played with the cards it was begun with.                          *)
MatchKeepsItsCards == deckPhase # "waiting" => AllCards(deck) = AllCards(firstDeck)

(* Nobody is stuck in side decking: the deck one has is accepted again.  But    *)
(* for a code EDOPro left out of it, for a bot, whose deck nobody had judged,   *)
(* for a Genesys room whose list was lost, where another chain judges, and for  *)
(* a deck admitted while the list was lost.                                     *)
KeptDeckIsAccepted ==
  (deckPhase = "siding" /\ (\A c \in DeckCodes \ Known : SentCards(lastSent)[c] = 0) /\ ~deckRoom.bot
     /\ (deckRoom.engine = "ygopro" => (listed \/ ~judgedBy.genesys)))
  => Accepts(lastSent)

(* A seat with a required deck duels with that deck's cards, and under an exact *)
(* lock with that deck.                                                         *)
RequiredDeckIsPlayed ==
  deck # NoDeck /\ deckRoom.required # NoDeck /\ ~deckRoom.bot =>
    /\ AllCards(deck) = AllCards(deckRoom.required)
    /\ deckRoom.lock = "exact" => deck = deckRoom.required
================================================================================
